---- MODULE Spec2Model ----
(***************************************************************************)
(* Model of the matching / ranking / blocklist / deduplication pipeline    *)
(* of pheme (src/app/pipeline/matching.py), of the digest run that drives  *)
(* it (src/app/pipeline/digest.py, with the fetcher factory, the           *)
(* extractor, the summarizer and the email sender it calls), of two such   *)
(* runs that overlap, and of the scheduler module                          *)
(* (src/app/scheduler/jobs.py).                                            *)
(*                                                                         *)
(* Conventions                                                             *)
(*  - A Python str is a sequence of code points (Naturals); "" is << >>.   *)
(*    String order is Python's: lexicographic by code point.               *)
(*  - A Python dict is a sequence of [tid, items] records in insertion     *)
(*    order (dicts iterate in insertion order), with pairwise distinct     *)
(*    tids.                                                                *)
(*  - A score is held in units of 1/200, so that priority * 0.5 and        *)
(*    score / 100 stay integers: 25.0 is 5000.                             *)
(*  - An Optional is a sequence: None is << >>, a value x is <<x>>.        *)
(*  - run() is one coroutine: a step of the model is one turn of one of    *)
(*    its loops, or the statements between two of its loops; an awaited    *)
(*    per-article summarization is two steps, the call and its return.     *)
(*    Each step is a set of successors XSteps(p, d) of a run p over the    *)
(*    database d, so that one run and two overlapping runs take the same   *)
(*    steps.                                                               *)
(***************************************************************************)
EXTENDS Integers, Sequences, FiniteSets, TLC

VARIABLES pc,            \* which step of the scenario has been taken
          matched,       \* dict topic_id -> list[ScoredArticle] given to the deduplicator
          topics_by_id,  \* dict topic_id -> Topic given to the deduplicator
          result,        \* the dict returned by deduplicate_across_topics
          other,         \* the dict returned for the same lists enumerated in another order
          articles,      \* the list[Article] given to the scorer, ranker, matcher or filter
          topics,        \* the list[Topic] given to the scorer, ranker or matcher
          blocked_keywords,  \* the list[str] given to the blocklist filter
          use_full_text, \* the keyword argument of the blocklist filter
          run,           \* the arguments and local variables of DigestPipeline.run()
          db,            \* the database: what its reads return, and the rows written
          calls,         \* the calls received by the fetchers, the language model and SMTP
          runs,          \* run id -> [pc, run, calls] of the run() invocations that overlap
          _scheduler,    \* the module global of jobs.py: None or a scheduler
          schedulers     \* the schedulers created so far: [running, jobs] of each

vars == <<pc, matched, topics_by_id, result, other, articles, topics,
          blocked_keywords, use_full_text, run, db, calls, runs, _scheduler, schedulers>>

\* the variables of a pipeline run, idle in the scenarios of single functions
runvars == <<run, db, calls, runs>>

\* the variables of the scheduler module, idle everywhere else
schedvars == <<_scheduler, schedulers>>

\* the variables of the single-function scenarios, idle during a pipeline run
callvars == <<matched, topics_by_id, result, other, articles, topics,
              blocked_keywords, use_full_text>>

\* the arguments of a call: no function of matching.py assigns to them
inputs == <<matched, topics_by_id, articles, topics, blocked_keywords, use_full_text>>

(***************************************************************************)
(* Bounds                                                                  *)
(***************************************************************************)
NumTopics == 2        \* topic ids are 1..NumTopics
MaxArticles == 3      \* articles in one article list
MaxBlocked == 2       \* blocked keywords in one list
MaxEntries == 2       \* scored articles in one matched mapping, all topics together

(***************************************************************************)
(* Generic helpers                                                         *)
(***************************************************************************)
\* Optional[X]: None is the empty sequence, a value x is <<x>>
None == <<>>

Some(x) == <<x>>

Value(opt) == opt[1]

Range(s) == {s[i] : i \in 1..Len(s)}

Min(a, b) == IF a <= b THEN a ELSE b

RECURSIVE SeqsUpTo(_, _)
SeqsUpTo(S, n) ==
    IF n = 0 THEN {<<>>}
    ELSE LET shorter == SeqsUpTo(S, n - 1)
         IN  shorter \cup {Append(s, x) : s \in {t \in shorter : Len(t) = n - 1}, x \in S}

\* Python's str comparison a < b: lexicographic by code point
RECURSIVE StrLess(_, _)
StrLess(a, b) ==
    IF b = <<>> THEN FALSE
    ELSE IF a = <<>> THEN TRUE
    ELSE IF Head(a) # Head(b) THEN Head(a) < Head(b)
    ELSE StrLess(Tail(a), Tail(b))

(***************************************************************************)
(* Strings                                                                 *)
(***************************************************************************)
\* str.lower() on the ASCII letters
Lower(s) == [i \in 1..Len(s) |-> IF s[i] \in 65..90 THEN s[i] + 32 ELSE s[i]]

\* " ".join(parts)
RECURSIVE JoinSpace(_)
JoinSpace(parts) ==
    IF parts = <<>> THEN <<>>
    ELSE IF Len(parts) = 1 THEN parts[1]
    ELSE parts[1] \o <<32>> \o JoinSpace(Tail(parts))

\* sub in text
RECURSIVE StrIn(_, _)
StrIn(sub, text) ==
    IF Len(sub) > Len(text) THEN FALSE
    ELSE IF SubSeq(text, 1, Len(sub)) = sub THEN TRUE
    ELSE StrIn(sub, Tail(text))

\* text.count(sub): occurrences that do not overlap, scanned from the left
RECURSIVE StrCount(_, _)
StrCount(text, sub) ==
    IF sub = <<>> THEN Len(text) + 1
    ELSE IF Len(sub) > Len(text) THEN 0
    ELSE IF SubSeq(text, 1, Len(sub)) = sub
         THEN 1 + StrCount(SubSeq(text, Len(sub) + 1, Len(text)), sub)
         ELSE StrCount(Tail(text), sub)

\* re.compile raises re.error: of the patterns of this model, those that open
\* a character set "[" and never close it; every other pattern is a literal
ReError(pattern) == 91 \in Range(pattern) /\ 93 \notin Range(pattern)

\* re.search(pattern, text, re.IGNORECASE) for a literal pattern
ReSearchIgnoreCase(pattern, text) == StrIn(Lower(pattern), Lower(text))

(***************************************************************************)
(* Scoring, ranking, topic matching                                        *)
(***************************************************************************)
_build_searchable_text(article) ==
    Lower(JoinSpace(IF article.full_text # <<>>
                    THEN <<article.title, article.content_preview, article.full_text>>
                    ELSE <<article.title, article.content_preview>>))

\* the points of a keyword without the cap on the additional occurrences
KeywordPointsUncapped(count) == 2000 + (count - 1) * 400

\* 10.0 + min(count - 1, 5) * 2.0
KeywordPoints(count) == 2000 + Min(count - 1, 5) * 400

\* the loop of _keyword_score: (score, matched)
RECURSIVE KeywordLoop(_, _)
KeywordLoop(text_lower, keywords) ==
    IF keywords = <<>> THEN [score |-> 0, matched |-> <<>>]
    ELSE LET rest == KeywordLoop(text_lower, SubSeq(keywords, 1, Len(keywords) - 1))
             kw == keywords[Len(keywords)]
             count == StrCount(text_lower, Lower(kw))
         IN  IF count > 0
             THEN [score |-> rest.score + KeywordPoints(count),
                   matched |-> Append(rest.matched, kw)]
             ELSE rest

_keyword_score(text, keywords) == KeywordLoop(Lower(text), keywords)

\* the loop that gives up at the first pattern that does not compile
RECURSIVE PatternMatchesStoppingAtError(_, _)
PatternMatchesStoppingAtError(text, patterns) ==
    IF patterns = <<>> THEN FALSE
    ELSE IF ReError(Head(patterns)) THEN FALSE
    ELSE IF ReSearchIgnoreCase(Head(patterns), text) THEN TRUE
    ELSE PatternMatchesStoppingAtError(text, Tail(patterns))

RECURSIVE _pattern_matches(_, _)
_pattern_matches(text, patterns) ==
    IF patterns = <<>> THEN FALSE
    ELSE IF ReError(Head(patterns)) THEN _pattern_matches(text, Tail(patterns))
    ELSE IF ReSearchIgnoreCase(Head(patterns), text) THEN TRUE
    ELSE _pattern_matches(text, Tail(patterns))

\* article.age_hours is (now - published_at) in hours, None for published_at None
_recency_score(article) ==
    IF article.age_hours = None THEN 1000
    ELSE IF Value(article.age_hours) < 6 THEN 2000
    ELSE IF Value(article.age_hours) < 24 THEN 1600
    ELSE IF Value(article.age_hours) < 48 THEN 1000
    ELSE IF Value(article.age_hours) < 72 THEN 600
    ELSE 200

\* min(article.score / 100, 10.0) for a score above 0
SourceBonus(article) ==
    IF article.score # None /\ Value(article.score) > 0
    THEN Min(2 * Value(article.score), 2000)
    ELSE 0

\* the scorer without the test "topic has keywords but none matched"
ScoreWithoutKeywordGate(article, topic) ==
    LET text == _build_searchable_text(article)
        kw == _keyword_score(text, topic.keywords)
    IN  IF topic.exclude_patterns # <<>> /\ _pattern_matches(text, topic.exclude_patterns)
        THEN None
        ELSE IF topic.include_patterns # <<>>
                /\ ~_pattern_matches(text, topic.include_patterns)
        THEN None
        ELSE Some([article |-> article,
                   score |-> kw.score + _recency_score(article) + topic.priority * 100
                                + SourceBonus(article),
                   matched_keywords |-> kw.matched])

score_article_for_topic(article, topic) ==
    LET text == _build_searchable_text(article)
        kw == _keyword_score(text, topic.keywords)
    IN  IF topic.exclude_patterns # <<>> /\ _pattern_matches(text, topic.exclude_patterns)
        THEN None
        ELSE IF topic.include_patterns # <<>>
                /\ ~_pattern_matches(text, topic.include_patterns)
        THEN None
        ELSE IF topic.keywords # <<>> /\ kw.matched = <<>>
        THEN None
        ELSE Some([article |-> article,
                   score |-> kw.score + _recency_score(article) + topic.priority * 100
                                + SourceBonus(article),
                   matched_keywords |-> kw.matched])

\* the first loop of rank_articles_for_topic
RECURSIVE ScoredList(_, _)
ScoredList(arts, topic) ==
    IF arts = <<>> THEN <<>>
    ELSE LET r == score_article_for_topic(Head(arts), topic)
         IN  (IF r = None THEN <<>> ELSE <<Value(r)>>) \o ScoredList(Tail(arts), topic)

\* scored.sort(key=score, reverse=True) is stable: equal scores keep their order
\* an insertion that puts an entry in front of the entries of equal score
RECURSIVE InsertBeforeEqualScore(_, _)
InsertBeforeEqualScore(sa, sorted) ==
    IF sorted = <<>> THEN <<sa>>
    ELSE IF sa.score >= Head(sorted).score THEN <<sa>> \o sorted
    ELSE <<Head(sorted)>> \o InsertBeforeEqualScore(sa, Tail(sorted))

RECURSIVE InsertByScore(_, _)
InsertByScore(sa, sorted) ==
    IF sorted = <<>> THEN <<sa>>
    ELSE IF sa.score > Head(sorted).score THEN <<sa>> \o sorted
    ELSE <<Head(sorted)>> \o InsertByScore(sa, Tail(sorted))

RECURSIVE SortByScore(_)
SortByScore(scored) ==
    IF scored = <<>> THEN <<>>
    ELSE InsertByScore(scored[Len(scored)], SortByScore(SubSeq(scored, 1, Len(scored) - 1)))

\* the ranker without the sort
RankWithoutSort(arts, topic) ==
    LET scored == ScoredList(arts, topic)
    IN  SubSeq(scored, 1, Min(Len(scored), topic.max_articles))

rank_articles_for_topic(arts, topic) ==
    LET sorted == SortByScore(ScoredList(arts, topic))
    IN  SubSeq(sorted, 1, Min(Len(sorted), topic.max_articles))

\* result[key] = value
DictSet(d, key, value) ==
    IF \E i \in 1..Len(d) : d[i].tid = key
    THEN [i \in 1..Len(d) |-> IF d[i].tid = key THEN [tid |-> key, items |-> value] ELSE d[i]]
    ELSE Append(d, [tid |-> key, items |-> value])

\* the matcher without the test of topic.enabled
RECURSIVE MatchIgnoringEnabled(_, _)
MatchIgnoringEnabled(arts, tps) ==
    IF tps = <<>> THEN <<>>
    ELSE LET before == MatchIgnoringEnabled(arts, SubSeq(tps, 1, Len(tps) - 1))
             topic == tps[Len(tps)]
             ranked == rank_articles_for_topic(arts, topic)
         IN  IF ranked # <<>> THEN DictSet(before, topic.id, ranked) ELSE before

RECURSIVE match_articles_to_topics(_, _)
match_articles_to_topics(arts, tps) ==
    IF tps = <<>> THEN <<>>
    ELSE LET before == match_articles_to_topics(arts, SubSeq(tps, 1, Len(tps) - 1))
             topic == tps[Len(tps)]
             ranked == rank_articles_for_topic(arts, topic)
         IN  IF ~topic.enabled THEN before
             ELSE IF ranked # <<>> THEN DictSet(before, topic.id, ranked)
             ELSE before

(***************************************************************************)
(* Global keyword blocklist                                                *)
(***************************************************************************)
\* (title + " " + body).lower()
Searchable(article, full) ==
    Lower(article.title \o <<32>>
          \o (IF full THEN article.full_text ELSE article.content_preview))

\* the filter with the blocked keywords left in their own case
FilterKeepingKeywordCase(arts, blocked, full) ==
    IF blocked = <<>> THEN arts
    ELSE SelectSeq(arts, LAMBDA a : \A i \in 1..Len(blocked) :
                                       ~StrIn(blocked[i], Searchable(a, full)))

filter_blocked_articles(arts, blocked, full) ==
    IF blocked = <<>> THEN arts
    ELSE LET keywords_lower == [i \in 1..Len(blocked) |-> Lower(blocked[i])]
         IN  SelectSeq(arts, LAMBDA a : \A i \in 1..Len(keywords_lower) :
                                           ~StrIn(keywords_lower[i], Searchable(a, full)))

(***************************************************************************)
(* Cross-topic deduplication                                               *)
(***************************************************************************)
\* dict helpers
Keys(d) == {d[i].tid : i \in 1..Len(d)}

Get(d, tid, default) ==
    IF tid \in Keys(d)
    THEN d[CHOOSE i \in 1..Len(d) : d[i].tid = tid].items
    ELSE default

\* Step 1: the (topic_id, score) entries in the order the two nested loops visit them
RECURSIVE AllEntries(_)
AllEntries(m) ==
    IF m = <<>> THEN <<>>
    ELSE LET items == Head(m).items
         IN  [i \in 1..Len(items) |->
                [tid |-> Head(m).tid, url |-> items[i].article.url, score |-> items[i].score]]
             \o AllEntries(Tail(m))

url_to_entries(m, url) == SelectSeq(AllEntries(m), LAMBDA e : e.url = url)

\* _sort_key with the priority not negated: the lower priority sorts first
SortKeyPriorityAscending(entry, lookup) ==
    LET known == entry.tid \in DOMAIN lookup
    IN  [negscore |-> 0 - entry.score,
         negpriority |-> IF known THEN lookup[entry.tid].priority ELSE 0,
         name |-> IF known THEN lookup[entry.tid].name ELSE <<>>]

\* _sort_key: (-score, -priority, name), priority 0 and name "" for an unknown topic
_sort_key(entry, lookup) ==
    LET known == entry.tid \in DOMAIN lookup
    IN  [negscore |-> 0 - entry.score,
         negpriority |-> IF known THEN 0 - lookup[entry.tid].priority ELSE 0,
         name |-> IF known THEN lookup[entry.tid].name ELSE <<>>]

\* the comparison of a key that stops at the priority
KeyLessWithoutName(k1, k2) ==
    \/ k1.negscore < k2.negscore
    \/ k1.negscore = k2.negscore /\ k1.negpriority < k2.negpriority

\* Python tuple comparison k1 < k2
KeyLess(k1, k2) ==
    \/ k1.negscore < k2.negscore
    \/ k1.negscore = k2.negscore /\ k1.negpriority < k2.negpriority
    \/ k1.negscore = k2.negscore /\ k1.negpriority = k2.negpriority
         /\ StrLess(k1.name, k2.name)

\* list.sort(key=_sort_key) is stable: an entry goes behind every entry whose key is not larger
RECURSIVE SortedInsert(_, _, _)
SortedInsert(e, sorted, lookup) ==
    IF sorted = <<>> THEN <<e>>
    ELSE IF KeyLess(_sort_key(e, lookup), _sort_key(Head(sorted), lookup))
         THEN <<e>> \o sorted
         ELSE <<Head(sorted)>> \o SortedInsert(e, Tail(sorted), lookup)

RECURSIVE SortEntries(_, _)
SortEntries(entries, lookup) ==
    IF entries = <<>> THEN <<>>
    ELSE SortedInsert(entries[Len(entries)],
                      SortEntries(SubSeq(entries, 1, Len(entries) - 1), lookup), lookup)

\* entries[2:] in place of entries[1:]: the runner-up is not marked
LosersAfterRunnerUp(sorted) == {sorted[i].tid : i \in 3..Len(sorted)}

\* Step 2, inner loop: the topic ids of entries[1:] of the sorted list
Losers(sorted) == {sorted[i].tid : i \in 2..Len(sorted)}

\* Step 2: urls_to_remove.get(topic_id, set())
urls_to_remove(m, lookup, tid) ==
    {url \in {e.url : e \in Range(AllEntries(m))} :
        LET entries == url_to_entries(m, url)
        IN  /\ Len(entries) > 1
            /\ tid \in Losers(SortEntries(entries, lookup))}

\* the comprehension with its test inverted ("in" for "not in")
CleanedInverted(scored_articles, remove_set) ==
    SelectSeq(scored_articles, LAMBDA sa : sa.article.url \in remove_set)

\* Step 3: the list comprehension that rebuilds one topic's list
Cleaned(scored_articles, remove_set) ==
    SelectSeq(scored_articles, LAMBDA sa : sa.article.url \notin remove_set)

\* a rebuild that leaves out a topic whose cleaned list is empty, as the matcher does
DeduplicateOmittingEmpty(m, lookup) ==
    SelectSeq([i \in 1..Len(m) |->
                  [tid |-> m[i].tid,
                   items |-> Cleaned(m[i].items, urls_to_remove(m, lookup, m[i].tid))]],
              LAMBDA kv : kv.items # <<>>)

deduplicate_across_topics(m, lookup) ==
    IF m = <<>> THEN <<>>
    ELSE [i \in 1..Len(m) |->
            [tid |-> m[i].tid,
             items |-> Cleaned(m[i].items, urls_to_remove(m, lookup, m[i].tid))]]

(***************************************************************************)
(* Inputs of the deduplication scenario                                    *)
(***************************************************************************)
TopicIds == 1..NumTopics

\* topic names as code points
Alpha == <<65, 108, 112, 104, 97>>
Bravo == <<66, 114, 97, 118, 111>>

\* the Topic fields the deduplicator reads
TopicChoices ==
    {[name |-> Alpha, priority |-> 50],
     [name |-> Bravo, priority |-> 50],
     [name |-> Bravo, priority |-> 80]}

\* ScoredArticle values; the deduplicator reads article.url and score (20.0 and 25.0)
ScoredChoices ==
    {[article |-> [url |-> "https://shared.com"], score |-> 4000],
     [article |-> [url |-> "https://shared.com"], score |-> 5000],
     [article |-> [url |-> "https://a.com"], score |-> 4000],
     [article |-> [url |-> "https://a.com"], score |-> 5000]}

\* every order in which a dict can hold a set of distinct topic ids
KeyOrders ==
    {ks \in SeqsUpTo(TopicIds, NumTopics) :
        \A i, j \in 1..Len(ks) : i # j => ks[i] # ks[j]}

RECURSIVE TotalLen(_)
TotalLen(lists) ==
    IF lists = <<>> THEN 0 ELSE Len(Head(lists)) + TotalLen(Tail(lists))

MatchedInputs ==
    UNION {{[i \in 1..Len(ks) |-> [tid |-> ks[i], items |-> lists[i]]] :
               lists \in {l \in [1..Len(ks) -> SeqsUpTo(ScoredChoices, MaxEntries)] :
                             TotalLen(l) <= MaxEntries}} :
           ks \in KeyOrders}

\* a lookup may miss topic ids
LookupInputs == UNION {[S -> TopicChoices] : S \in SUBSET TopicIds}

Reordered(m, perm) == [i \in 1..Len(m) |-> m[perm[i]]]

(***************************************************************************)
(* The deduplication scenario: one call, then either a second call on the  *)
(* first call's output or a call on the same lists in another key order.   *)
(***************************************************************************)
InitDedup ==
    /\ pc = "input"
    /\ run = <<>>
    /\ runs = <<>>
    /\ _scheduler = None
    /\ schedulers = <<>>
    /\ db = <<>>
    /\ calls = <<>>
    /\ matched \in MatchedInputs
    /\ topics_by_id \in LookupInputs
    /\ result = None
    /\ other = None
    /\ articles = <<>>
    /\ topics = <<>>
    /\ blocked_keywords = <<>>
    /\ use_full_text = FALSE

Deduplicate ==
    /\ pc = "input"
    /\ result' = deduplicate_across_topics(matched, topics_by_id)
    /\ pc' = "deduplicated"
    /\ UNCHANGED <<runvars, schedvars, inputs, other>>

DeduplicateAgain ==
    /\ pc = "deduplicated"
    /\ other' = deduplicate_across_topics(result, topics_by_id)
    /\ pc' = "again"
    /\ UNCHANGED <<runvars, schedvars, inputs, result>>

DeduplicateReordered ==
    /\ pc = "deduplicated"
    /\ \E perm \in Permutations(1..Len(matched)) :
          other' = deduplicate_across_topics(Reordered(matched, perm), topics_by_id)
    /\ pc' = "reordered"
    /\ UNCHANGED <<runvars, schedvars, inputs, result>>

NextDedup == Deduplicate \/ DeduplicateAgain \/ DeduplicateReordered

SpecDedup == InitDedup /\ [][NextDedup]_vars

(***************************************************************************)
(* Inputs of the scoring, matching and filtering scenarios                 *)
(***************************************************************************)
\* texts as code points
AI == <<65, 73>>                   \* "AI"
ad == <<97, 100>>                  \* "ad"
ai_ai == <<97, 105, 32, 97, 105>>  \* "ai ai"
zz_ad == <<122, 122, 32, 97, 100>> \* "zz ad"
ai == <<97, 105>>                  \* "ai"
AD == <<65, 68>>                   \* "AD"
zz == <<122, 122>>                 \* "zz"
I_A == <<73, 32, 65>>              \* "I A"
Bracket == <<91>>                  \* "[", not a regular expression

ArticleChoices ==
    [title : {AI, ad},
     url : {"https://a.com"},
     content_preview : {<<>>, ai_ai, ad},
     full_text : {<<>>, zz_ad},
     age_hours : {None, Some(3), Some(30)},
     score : {None, Some(150)}]

ScoreTopicChoices ==
    [id : {1},
     name : {Alpha},
     keywords : {<<>>, <<ai>>, <<AD>>, <<zz>>, <<zz, ai>>},
     include_patterns : {<<>>, <<ai>>, <<Bracket, ad>>, <<zz>>},
     exclude_patterns : {<<>>, <<AD>>, <<Bracket>>},
     priority : {0, 50},
     max_articles : {1},
     enabled : {TRUE}]

\* the articles of the list scenarios: no date, no source score
ListArticleChoices ==
    {a \in ArticleChoices :
        a.age_hours = None /\ a.score = None /\ a.full_text = <<>> /\ a.content_preview # ad}

\* the topics of the list scenarios, without their id
ListTopicChoices ==
    {t \in [name : {Alpha},
            keywords : {<<>>, <<ai>>},
            include_patterns : {<<>>},
            exclude_patterns : {<<>>, <<AD>>},
            priority : {50},
            max_articles : {1, 2},
            enabled : {TRUE, FALSE}] :
        t.enabled \/ t.max_articles = 2}

WithId(t, i) ==
    [id |-> i, name |-> t.name, keywords |-> t.keywords,
     include_patterns |-> t.include_patterns, exclude_patterns |-> t.exclude_patterns,
     priority |-> t.priority, max_articles |-> t.max_articles, enabled |-> t.enabled]

\* topic lists with the ids 1, 2, ... of distinct database rows
TopicLists ==
    {[i \in 1..Len(ts) |-> WithId(ts[i], i)] : ts \in SeqsUpTo(ListTopicChoices, NumTopics)}

\* the articles of the filter scenario
FilterArticleChoices ==
    {a \in ArticleChoices :
        a.age_hours = None /\ a.score = None /\ a.content_preview # ai_ai}

BlockedChoices == {AD, zz, I_A}

(***************************************************************************)
(* The scoring scenario: one call of score_article_for_topic               *)
(***************************************************************************)
\* an article whose text repeats a keyword eight times
Chorus ==
    [title |-> AI,
     url |-> "https://a.com",
     content_preview |-> ai_ai \o <<32>> \o ai_ai \o <<32>> \o ai_ai \o <<32>> \o ai,
     full_text |-> <<>>,
     age_hours |-> None,
     score |-> None]

InitScore ==
    /\ pc = "input"
    /\ run = <<>>
    /\ runs = <<>>
    /\ _scheduler = None
    /\ schedulers = <<>>
    /\ db = <<>>
    /\ calls = <<>>
    /\ articles \in {<<a>> : a \in ArticleChoices \cup {Chorus}}
    /\ topics \in {<<t>> : t \in ScoreTopicChoices}
    /\ matched = <<>>
    /\ topics_by_id = <<>>
    /\ blocked_keywords = <<>>
    /\ use_full_text = FALSE
    /\ result = None
    /\ other = None

Score ==
    /\ pc = "input"
    /\ result' = score_article_for_topic(articles[1], topics[1])
    /\ pc' = "scored"
    /\ UNCHANGED <<runvars, schedvars, inputs, other>>

NextScore == Score

SpecScore == InitScore /\ [][NextScore]_vars

(***************************************************************************)
(* The matching scenario: one call of rank_articles_for_topic or of        *)
(* match_articles_to_topics                                                *)
(***************************************************************************)
InitMatch ==
    /\ pc = "input"
    /\ run = <<>>
    /\ runs = <<>>
    /\ _scheduler = None
    /\ schedulers = <<>>
    /\ db = <<>>
    /\ calls = <<>>
    /\ articles \in SeqsUpTo(ListArticleChoices, MaxArticles)
    /\ topics \in TopicLists
    /\ matched = <<>>
    /\ topics_by_id = <<>>
    /\ blocked_keywords = <<>>
    /\ use_full_text = FALSE
    /\ result = None
    /\ other = None

Rank ==
    /\ pc = "input"
    /\ topics # <<>>
    /\ result' = rank_articles_for_topic(articles, topics[1])
    /\ pc' = "ranked"
    /\ UNCHANGED <<runvars, schedvars, inputs, other>>

Match ==
    /\ pc = "input"
    /\ result' = match_articles_to_topics(articles, topics)
    /\ pc' = "matched"
    /\ UNCHANGED <<runvars, schedvars, inputs, other>>

NextMatch == Rank \/ Match

SpecMatch == InitMatch /\ [][NextMatch]_vars

(***************************************************************************)
(* The filtering scenario: one call of filter_blocked_articles             *)
(***************************************************************************)
InitFilter ==
    /\ pc = "input"
    /\ run = <<>>
    /\ runs = <<>>
    /\ _scheduler = None
    /\ schedulers = <<>>
    /\ db = <<>>
    /\ calls = <<>>
    /\ articles \in SeqsUpTo(FilterArticleChoices, MaxArticles)
    /\ blocked_keywords \in SeqsUpTo(BlockedChoices, MaxBlocked)
    /\ use_full_text \in BOOLEAN
    /\ topics = <<>>
    /\ matched = <<>>
    /\ topics_by_id = <<>>
    /\ result = None
    /\ other = None

FilterBlocked ==
    /\ pc = "input"
    /\ result' = filter_blocked_articles(articles, blocked_keywords, use_full_text)
    /\ pc' = "filtered"
    /\ UNCHANGED <<runvars, schedvars, inputs, other>>

NextFilter == FilterBlocked

SpecFilter == InitFilter /\ [][NextFilter]_vars

(***************************************************************************)
(* The fetcher factory (src/app/fetchers/factory.py)                       *)
(***************************************************************************)
\* the values of the enum SourceType
SourceType == {"rss", "reddit", "web"}

\* source type -> fetcher class; register_fetcher only adds or replaces an
\* entry, so every member of SourceType keeps a class
_FETCHER_REGISTRY ==
    [t \in SourceType |->
        CASE t = "rss" -> "RSSFetcher"
          [] t = "reddit" -> "RedditFetcher"
          [] t = "web" -> "WebFetcher"]

\* a factory that hands out the RSS fetcher for a type it does not know
CreateFetcherWithDefault(source_type) ==
    IF source_type \in DOMAIN _FETCHER_REGISTRY
    THEN [raised |-> FALSE, fetcher |-> Some(_FETCHER_REGISTRY[source_type])]
    ELSE [raised |-> FALSE, fetcher |-> Some("RSSFetcher")]

\* SourceType(source_type) raises ValueError for a string that is no member,
\* and a member without an entry raises ValueError; otherwise an instance of
\* the registered class
create_fetcher(source_type) ==
    IF source_type \notin SourceType
    THEN [raised |-> TRUE, fetcher |-> None]
    ELSE IF source_type \notin DOMAIN _FETCHER_REGISTRY
    THEN [raised |-> TRUE, fetcher |-> None]
    ELSE [raised |-> FALSE, fetcher |-> Some(_FETCHER_REGISTRY[source_type])]

(***************************************************************************)
(* The summarizer (src/app/summarizer/llm.py)                              *)
(*                                                                         *)
(* An answer of the language model is a record [kind, content]:            *)
(*   "unreachable"  client.chat raised                                     *)
(*   "malformed"    the response has no ["message"]["content"]             *)
(*   "content"      the response carries the text content                  *)
(* An overview summary is a record [kind, text, items]; kind names the     *)
(* sentence around the text or the items.                                  *)
(***************************************************************************)
FallbackPreviewLen == 200     \* content_preview[:200]

Truncate(s, n) == SubSeq(s, 1, Min(Len(s), n))

IsSpace(c) == c \in {9, 10, 13, 32}

\* str.strip()
RECURSIVE Strip(_)
Strip(s) ==
    IF s = <<>> THEN s
    ELSE IF IsSpace(Head(s)) THEN Strip(Tail(s))
    ELSE IF IsSpace(s[Len(s)]) THEN Strip(SubSeq(s, 1, Len(s) - 1))
    ELSE s

Unreachable == [kind |-> "unreachable", content |-> <<>>]
Malformed == [kind |-> "malformed", content |-> <<>>]
Content(text) == [kind |-> "content", content |-> text]

\* ArticleSummary(article, summary, success)
summarize_article(article, answer) ==
    IF answer.kind = "content"
    THEN [article |-> article, summary |-> answer.content, success |-> TRUE]
    ELSE [article |-> article,
          summary |-> IF article.content_preview # <<>>
                      THEN Truncate(article.content_preview, FallbackPreviewLen)
                      ELSE article.title,
          success |-> FALSE]

\* one call of summarize_article for each article, in order
summarize_articles_batch(arts, answers) ==
    [i \in 1..Len(arts) |-> summarize_article(arts[i], answers[i])]

\* "Today's articles:" and, for each article, its title, url and preview[:200]
_build_fallback(arts) ==
    [kind |-> "Today's articles:",
     text |-> <<>>,
     items |-> [i \in 1..Len(arts) |->
                  <<arts[i].title, arts[i].url,
                    Truncate(arts[i].content_preview, FallbackPreviewLen)>>]]

\* summarize without the early return for an empty list
SummarizeWithoutEmptyCase(arts, answer) ==
    IF answer.kind = "content"
    THEN [summary |-> [kind |-> "content", text |-> answer.content, items |-> <<>>],
          success |-> TRUE, chat |-> TRUE]
    ELSE [summary |-> _build_fallback(arts), success |-> FALSE, chat |-> TRUE]

\* SummarizerResult of summarize(articles); chat tells whether client.chat was called
summarize(arts, answer) ==
    IF arts = <<>>
    THEN [summary |-> [kind |-> "No articles to summarize.", text |-> <<>>, items |-> <<>>],
          success |-> TRUE, chat |-> FALSE]
    ELSE IF answer.kind = "content"
    THEN [summary |-> [kind |-> "content", text |-> answer.content, items |-> <<>>],
          success |-> TRUE, chat |-> TRUE]
    ELSE [summary |-> _build_fallback(arts), success |-> FALSE, chat |-> TRUE]

\* SummarizerResult of summarize_overview(topic_summaries)
summarize_overview(topic_summaries, answer) ==
    IF topic_summaries = <<>>
    THEN [summary |-> [kind |-> "No topics to summarize.", text |-> <<>>, items |-> <<>>],
          success |-> TRUE, chat |-> FALSE]
    ELSE IF answer.kind = "content"
    THEN [summary |-> [kind |-> "content", text |-> Strip(answer.content), items |-> <<>>],
          success |-> TRUE, chat |-> TRUE]
    ELSE [summary |-> [kind |-> "Today's digest covers:",
                       text |-> <<>>,
                       items |-> [i \in 1..Len(topic_summaries) |-> topic_summaries[i].topic]],
          success |-> FALSE, chat |-> TRUE]

(***************************************************************************)
(* The models built by the run (src/app/models.py)                         *)
(***************************************************************************)
SummaryMinLength == 1         \* DigestEntry.summary: Field(..., min_length=1)

\* DigestEntry(article=..., summary=...): validation raises for a summary
\* shorter than min_length, and then there is no entry
DigestEntry(article, summary) ==
    IF Len(summary) >= SummaryMinLength
    THEN Some([article |-> article, summary |-> summary])
    ELSE None

(***************************************************************************)
(* DigestPipeline.run (src/app/pipeline/digest.py)                         *)
(*                                                                         *)
(* pc is the place of the coroutine: "start", "fetch", "extract",          *)
(* "filter", "topics", "sections", "summarizing" (a per-article call is    *)
(* awaited), "overview", "deliver", "log", and then "returned" or, when an *)
(* exception left run(), "raised". calls is the log of the calls the run   *)
(* has made to its collaborators, each with what it was given and what it  *)
(* answered; calls.pending holds the per-article calls that are in flight. *)
(***************************************************************************)
\* what the database returns for the enabled sources; the last one has a
\* type value that is no member of SourceType
RssSource == [id |-> 1, type |-> "rss"]
WebSource == [id |-> 2, type |-> "web"]
AtomSource == [id |-> 3, type |-> "atom"]

SourceLists ==
    {<<>>, <<RssSource>>, <<RssSource, WebSource>>, <<AtomSource, RssSource>>}

\* the articles a fetcher can return
Plain ==
    [title |-> AI, url |-> "https://a.com", content_preview |-> <<>>,
     full_text |-> <<>>, age_hours |-> None, score |-> None]
Repost ==
    [title |-> AI, url |-> "https://a.com", content_preview |-> ai_ai,
     full_text |-> <<>>, age_hours |-> None, score |-> None]
Advert ==
    [title |-> ad, url |-> "https://b.com", content_preview |-> ad,
     full_text |-> <<>>, age_hours |-> None, score |-> None]

Enriched ==
    [title |-> AI, url |-> "https://c.com", content_preview |-> <<>>,
     full_text |-> zz, age_hours |-> None, score |-> None]

FetchLists == {<<Plain>>, <<Plain, Repost>>, <<Advert>>, <<Enriched, Advert>>}

\* the text fetch_full_text extracts from a page
ExtractedText == zz_ad

\* what the database returns for the enabled topics
AlphaTopic ==
    [id |-> 1, name |-> Alpha, keywords |-> <<ai>>, include_patterns |-> <<>>,
     exclude_patterns |-> <<>>, priority |-> 50, max_articles |-> 2, enabled |-> TRUE]
BravoTopic ==
    [id |-> 2, name |-> Bravo, keywords |-> <<>>, include_patterns |-> <<>>,
     exclude_patterns |-> <<>>, priority |-> 50, max_articles |-> 1, enabled |-> TRUE]

RunTopicLists == {<<>>, <<AlphaTopic>>, <<AlphaTopic, BravoTopic>>}

\* the keyword column of the blocked_keywords rows
RunBlockedLists == {<<>>, <<AD>>}

FilterScopes == {"title_preview", "full_text"}

Recipients == {"", "reader@example.com"}

OK_ == <<79, 75, 10>>           \* "OK\n"

\* the answers of the language model to one chat call
LlmAnswers == {Unreachable, Malformed, Content(OK_), Content(<<>>)}

\* the log of the calls before the run has made any
NoCalls ==
    [create |-> <<>>, fetch |-> <<>>, extract |-> <<>>, filter |-> <<>>,
     summarize_article |-> <<>>, pending |-> <<>>, answers |-> <<>>, chat |-> 0,
     summarize |-> <<>>, summarize_overview |-> <<>>, overview |-> <<>>, send |-> <<>>]

InitRun ==
    /\ pc = "start"
    /\ db \in [sources : SourceLists,
               topics : RunTopicLists,
               blocked_keywords : RunBlockedLists,
               filter_scope : FilterScopes,
               last_fetched : {<<>>},
               digest_logs : {<<>>}]
    /\ run \in [recipient : Recipients,
                sources : {<<>>},
                i : {1},
                all_articles : {<<>>},
                successful_source_ids : {<<>>},
                x : {1},
                matches : {<<>>},
                j : {1},
                k : {1},
                article_summaries : {<<>>},
                topic_sections : {<<>>},
                summarizer_result : {None},
                entries : {<<>>},
                digest : {None},
                email_sent : {FALSE},
                exc : {None}]
    /\ calls = NoCalls
    /\ matched = <<>>
    /\ topics_by_id = <<>>
    /\ result = None
    /\ other = None
    /\ articles = <<>>
    /\ topics = <<>>
    /\ blocked_keywords = <<>>
    /\ use_full_text = FALSE
    /\ runs = <<>>
    /\ _scheduler = None
    /\ schedulers = <<>>

\* the run as a process: its place, its locals and the calls it has made
Proc == [pc |-> pc, run |-> run, calls |-> calls]

\* the step of the run that leads to the place, locals, calls and database n
Become(n) ==
    /\ pc' = n.pc
    /\ run' = n.run
    /\ calls' = n.calls
    /\ db' = n.db
    /\ UNCHANGED <<callvars, schedvars, runs>>

\* sources = await self._get_sources()
GetSourcesSteps(p, d) ==
    IF p.pc = "start"
    THEN {[pc |-> "fetch", run |-> [p.run EXCEPT !.sources = d.sources],
           calls |-> p.calls, db |-> d]}
    ELSE {}

GetSources == \E n \in GetSourcesSteps(Proc, db) : Become(n)

\* one turn of the loop over the sources: create_fetcher, then fetch, and
\* the except clause that swallows what either raises
FetchSourceSteps(p, d) ==
    IF p.pc = "fetch" /\ p.run.i <= Len(p.run.sources)
    THEN LET source == p.run.sources[p.run.i]
             made == create_fetcher(source.type)
             created == [type |-> source.type, raised |-> made.raised,
                         fetcher |-> made.fetcher]
             passed == [p.run EXCEPT !.i = @ + 1]
         IN  IF made.raised
             THEN {[pc |-> "fetch", run |-> passed,
                    calls |-> [p.calls EXCEPT !.create = Append(@, created)], db |-> d]}
             ELSE \* fetcher.fetch(source) raises
                  {[pc |-> "fetch", run |-> passed,
                    calls |-> [p.calls EXCEPT
                                 !.create = Append(@, created),
                                 !.fetch = Append(@, [source_id |-> source.id, raised |-> TRUE,
                                                      count |-> 0, returned |-> <<>>])],
                    db |-> d]}
                  \cup
                  \* fetcher.fetch(source) returns a list
                  {[pc |-> "fetch",
                    run |-> [p.run EXCEPT
                               !.i = @ + 1,
                               !.all_articles = @ \o fetched,
                               !.successful_source_ids = Append(@, source.id)],
                    calls |-> [p.calls EXCEPT
                                 !.create = Append(@, created),
                                 !.fetch = Append(@, [source_id |-> source.id, raised |-> FALSE,
                                                      count |-> Len(fetched),
                                                      returned |-> fetched])],
                    db |-> d] : fetched \in FetchLists}
    ELSE {}

FetchSource == \E n \in FetchSourceSteps(Proc, db) : Become(n)

\* the loop over successful_source_ids: its writes are read by no run
UpdateLastFetchedSteps(p, d) ==
    IF p.pc = "fetch" /\ p.run.i > Len(p.run.sources)
    THEN {[pc |-> "extract", run |-> p.run, calls |-> p.calls,
           db |-> [d EXCEPT !.last_fetched = @ \o p.run.successful_source_ids]]}
    ELSE {}

UpdateLastFetched == \E n \in UpdateLastFetchedSteps(Proc, db) : Become(n)

\* a loop of _extract_full_text that asks for the full text of every article
ExtractEveryArticleSteps(p, d) ==
    IF p.pc = "extract" /\ p.run.x <= Len(p.run.all_articles)
    THEN LET article == p.run.all_articles[p.run.x]
             attempt(ok) == [index |-> p.run.x, url |-> article.url, success |-> ok]
         IN  {[pc |-> "extract", run |-> [p.run EXCEPT !.x = @ + 1],
               calls |-> [p.calls EXCEPT !.extract = Append(@, attempt(FALSE))], db |-> d],
              [pc |-> "extract",
               run |-> [p.run EXCEPT !.x = @ + 1,
                                     !.all_articles[p.run.x].full_text = ExtractedText],
               calls |-> [p.calls EXCEPT !.extract = Append(@, attempt(TRUE))], db |-> d]}
    ELSE {}

\* one turn of the loop of _extract_full_text: an article that has full text
\* is passed over; for another one fetch_full_text is awaited, and its text
\* is written when it succeeds
ExtractOneSteps(p, d) ==
    IF p.pc = "extract" /\ p.run.x <= Len(p.run.all_articles)
    THEN LET article == p.run.all_articles[p.run.x]
             attempt(ok) == [index |-> p.run.x, url |-> article.url, success |-> ok]
         IN  IF article.full_text # <<>>
             THEN {[pc |-> "extract", run |-> [p.run EXCEPT !.x = @ + 1],
                    calls |-> p.calls, db |-> d]}
             ELSE {[pc |-> "extract", run |-> [p.run EXCEPT !.x = @ + 1],
                    calls |-> [p.calls EXCEPT !.extract = Append(@, attempt(FALSE))], db |-> d],
                   [pc |-> "extract",
                    run |-> [p.run EXCEPT !.x = @ + 1,
                                          !.all_articles[p.run.x].full_text = ExtractedText],
                    calls |-> [p.calls EXCEPT !.extract = Append(@, attempt(TRUE))], db |-> d]}
    ELSE {}

ExtractOne == \E n \in ExtractOneSteps(Proc, db) : Become(n)

\* the loop of _extract_full_text is over
EnrichmentDoneSteps(p, d) ==
    IF p.pc = "extract" /\ p.run.x > Len(p.run.all_articles)
    THEN {[pc |-> "filter", run |-> p.run, calls |-> p.calls, db |-> d]}
    ELSE {}

EnrichmentDone == \E n \in EnrichmentDoneSteps(Proc, db) : Become(n)

\* a run that filters with the default scope whatever the setting says
ApplyBlocklistDefaultScopeSteps(p, d) ==
    IF p.pc = "filter"
    THEN IF d.blocked_keywords # <<>>
         THEN LET kept == filter_blocked_articles(p.run.all_articles, d.blocked_keywords, FALSE)
              IN  {[pc |-> "topics",
                    run |-> [p.run EXCEPT !.all_articles = kept],
                    calls |-> [p.calls EXCEPT !.filter =
                                 Append(@, [articles |-> p.run.all_articles,
                                            blocked_keywords |-> d.blocked_keywords,
                                            use_full_text |-> FALSE,
                                            kept |-> kept])],
                    db |-> d]}
         ELSE {[pc |-> "topics", run |-> p.run, calls |-> p.calls, db |-> d]}
    ELSE {}

\* the blocklist filter: with blocked keywords, all_articles is assigned the
\* filtered list
ApplyBlocklistSteps(p, d) ==
    IF p.pc = "filter"
    THEN IF d.blocked_keywords # <<>>
         THEN LET full == d.filter_scope = "full_text"
                  kept == filter_blocked_articles(p.run.all_articles, d.blocked_keywords, full)
              IN  {[pc |-> "topics",
                    run |-> [p.run EXCEPT !.all_articles = kept],
                    calls |-> [p.calls EXCEPT !.filter =
                                 Append(@, [articles |-> p.run.all_articles,
                                            blocked_keywords |-> d.blocked_keywords,
                                            use_full_text |-> full,
                                            kept |-> kept])],
                    db |-> d]}
         ELSE {[pc |-> "topics", run |-> p.run, calls |-> p.calls, db |-> d]}
    ELSE {}

ApplyBlocklist == \E n \in ApplyBlocklistSteps(Proc, db) : Become(n)

TopicOf(d, tid) == d.topics[CHOOSE n \in 1..Len(d.topics) : d.topics[n].id = tid]

\* topics = await self._get_topics(); in topic mode match, then deduplicate
MatchTopicsSteps(p, d) ==
    IF p.pc = "topics"
    THEN IF d.topics # <<>>
         THEN LET by_id == [id \in {d.topics[n].id : n \in 1..Len(d.topics)} |-> TopicOf(d, id)]
              IN  {[pc |-> "sections",
                    run |-> [p.run EXCEPT !.matches =
                               deduplicate_across_topics(
                                   match_articles_to_topics(p.run.all_articles, d.topics),
                                   by_id)],
                    calls |-> p.calls, db |-> d]}
         ELSE {[pc |-> "overview", run |-> p.run, calls |-> p.calls, db |-> d]}
    ELSE {}

MatchTopics == \E n \in MatchTopicsSteps(Proc, db) : Become(n)

\* the topic the loop over matches.items() is at, and its articles
TopicAt(p) == p.run.matches[p.run.j]
ArticlesForTopic(p) ==
    [n \in 1..Len(TopicAt(p).items) |-> TopicAt(p).items[n].article]

\* a batch that starts the call for the next article while calls are in flight
StartArticleSummaryWithoutWaitingSteps(p, d) ==
    IF /\ p.pc \in {"sections", "summarizing"}
       /\ p.run.j <= Len(p.run.matches)
       /\ p.run.k + Len(p.calls.pending) <= Len(TopicAt(p).items)
    THEN LET article == ArticlesForTopic(p)[p.run.k + Len(p.calls.pending)]
         IN  {[pc |-> "summarizing", run |-> p.run,
               calls |-> [p.calls EXCEPT
                            !.summarize_article = Append(@, [tid |-> TopicAt(p).tid,
                                                             article |-> article]),
                            !.pending = Append(@, article)],
               db |-> d]}
    ELSE {}

\* summarize_articles_batch reaches `await self.summarize_article(article)`
\* for the next article of the topic: the call is made and the run waits
StartArticleSummarySteps(p, d) ==
    IF /\ p.pc = "sections"
       /\ p.run.j <= Len(p.run.matches)
       /\ p.run.k <= Len(TopicAt(p).items)
    THEN LET article == ArticlesForTopic(p)[p.run.k]
         IN  {[pc |-> "summarizing", run |-> p.run,
               calls |-> [p.calls EXCEPT
                            !.summarize_article = Append(@, [tid |-> TopicAt(p).tid,
                                                             article |-> article]),
                            !.pending = Append(@, article)],
               db |-> d]}
    ELSE {}

StartArticleSummary == \E n \in StartArticleSummarySteps(Proc, db) : Become(n)

\* the awaited summarize_article returns its ArticleSummary, which the batch
\* appends to its results
FinishArticleSummarySteps(p, d) ==
    IF p.pc = "summarizing"
    THEN {[pc |-> "sections",
           run |-> [p.run EXCEPT
                      !.k = @ + 1,
                      !.article_summaries =
                          Append(@, summarize_article(Head(p.calls.pending), answer))],
           calls |-> [p.calls EXCEPT !.chat = @ + 1,
                                     !.answers = Append(@, answer),
                                     !.pending = Tail(@)],
           db |-> d] : answer \in LlmAnswers}
    ELSE {}

FinishArticleSummary == \E n \in FinishArticleSummarySteps(Proc, db) : Become(n)

\* the batch of the topic has returned: build the entries and append the
\* topic section; a DigestEntry that fails validation raises out of run()
BuildSectionSteps(p, d) ==
    IF /\ p.pc = "sections"
       /\ p.run.j <= Len(p.run.matches)
       /\ p.run.k > Len(TopicAt(p).items)
    THEN LET topic == TopicOf(d, TopicAt(p).tid)
             article_summaries == p.run.article_summaries
             built == [n \in 1..Len(article_summaries) |->
                         DigestEntry(article_summaries[n].article,
                                     article_summaries[n].summary)]
         IN  IF \E n \in 1..Len(built) : built[n] = None
             THEN {[pc |-> "raised",
                    run |-> [p.run EXCEPT !.exc = Some("ValidationError")],
                    calls |-> p.calls, db |-> d]}
             ELSE {[pc |-> "sections",
                    run |-> [p.run EXCEPT
                               !.j = @ + 1,
                               !.k = 1,
                               !.article_summaries = <<>>,
                               !.topic_sections =
                                   Append(@, [topic_name |-> topic.name,
                                              topic_id |-> topic.id,
                                              entries |-> [n \in 1..Len(built) |->
                                                              Value(built[n])]])],
                    calls |-> p.calls, db |-> d]}
    ELSE {}

BuildSection == \E n \in BuildSectionSteps(Proc, db) : Become(n)

\* the loop over the topics is over
SectionsBuiltSteps(p, d) ==
    IF p.pc = "sections" /\ p.run.j > Len(p.run.matches)
    THEN {[pc |-> "overview", run |-> p.run, calls |-> p.calls, db |-> d]}
    ELSE {}

SectionsBuilt == \E n \in SectionsBuiltSteps(Proc, db) : Become(n)

RECURSIVE SumEntries(_)
SumEntries(sections) ==
    IF sections = <<>> THEN 0
    ELSE Len(Head(sections).entries) + SumEntries(Tail(sections))

\* the dicts {"topic", "headlines"} of the sections that have entries
TopicSummaries(sections) ==
    LET with_entries == SelectSeq(sections, LAMBDA ts : ts.entries # <<>>)
    IN  [k \in 1..Len(with_entries) |->
            [topic |-> with_entries[k].topic_name,
             headlines |-> [e \in 1..Len(with_entries[k].entries) |->
                               with_entries[k].entries[e].article.title]]]

\* flat entries that carry the title whatever the preview is
FlatEntriesOfTitles(arts) ==
    [k \in 1..Len(arts) |-> Value(DigestEntry(arts[k], arts[k].title))]

\* the flat entries: summary = content_preview or title
FlatEntries(arts) ==
    [k \in 1..Len(arts) |->
        Value(DigestEntry(arts[k],
                          IF arts[k].content_preview # <<>>
                          THEN arts[k].content_preview ELSE arts[k].title))]

\* Digest(entries, topic_sections, summary, ..., source_count, article_count)
Digest(flat, sections, summarizer_result, sources, all_articles) ==
    [entries |-> flat,
     topic_sections |-> sections,
     summary |-> summarizer_result.summary,
     source_count |-> Len(sources),
     article_count |-> Len(all_articles)]

\* the overview summary, then the flat entries and the Digest
BuildOverviewSteps(p, d) ==
    IF p.pc = "overview"
    THEN {LET in_sections == p.run.topic_sections # <<>>
              topic_summaries == TopicSummaries(p.run.topic_sections)
              summarizer_result == IF in_sections
                                   THEN summarize_overview(topic_summaries, answer)
                                   ELSE summarize(p.run.all_articles, answer)
              flat == FlatEntries(p.run.all_articles)
          IN  [pc |-> "deliver",
               run |-> [p.run EXCEPT
                          !.summarizer_result = Some(summarizer_result),
                          !.entries = flat,
                          !.digest = Some(Digest(flat, p.run.topic_sections,
                                                 summarizer_result,
                                                 p.run.sources, p.run.all_articles))],
               calls |-> [p.calls EXCEPT
                            !.chat = IF summarizer_result.chat THEN @ + 1 ELSE @,
                            !.summarize = IF in_sections THEN @
                                          ELSE Append(@, Len(p.run.all_articles)),
                            !.summarize_overview = IF in_sections
                                                   THEN Append(@, Len(topic_summaries))
                                                   ELSE @,
                            !.overview =
                                Append(@, IF in_sections
                                          THEN [method |-> "summarize_overview",
                                                topic_summaries |-> topic_summaries,
                                                articles |-> <<>>,
                                                answer |-> answer,
                                                after |-> Len(p.calls.answers)]
                                          ELSE [method |-> "summarize",
                                                topic_summaries |-> <<>>,
                                                articles |-> p.run.all_articles,
                                                answer |-> answer,
                                                after |-> Len(p.calls.answers)])],
               db |-> d] : answer \in LlmAnswers}
    ELSE {}

BuildOverview == \E n \in BuildOverviewSteps(Proc, db) : Become(n)

\* send_digest_email: True when aiosmtplib.send returns, False when it raises
send_digest_email(recipient, smtp_ok) ==
    IF recipient = "" THEN FALSE ELSE smtp_ok

\* a run that sends whether or not a recipient is configured
DeliverAlwaysSteps(p, d) ==
    IF p.pc = "deliver"
    THEN {[pc |-> "log",
           run |-> [p.run EXCEPT !.email_sent = send_digest_email(p.run.recipient, smtp_ok)],
           calls |-> [p.calls EXCEPT !.send = Append(@, [recipient |-> p.run.recipient,
                                                         ok |-> smtp_ok])],
           db |-> d] : smtp_ok \in BOOLEAN}
    ELSE {}

\* email_sent = False; if recipient: email_sent = await send_digest_email(...)
DeliverSteps(p, d) ==
    IF p.pc = "deliver"
    THEN IF p.run.recipient # ""
         THEN {[pc |-> "log",
                run |-> [p.run EXCEPT
                           !.email_sent = send_digest_email(p.run.recipient, smtp_ok)],
                calls |-> [p.calls EXCEPT !.send = Append(@, [recipient |-> p.run.recipient,
                                                              ok |-> smtp_ok])],
                db |-> d] : smtp_ok \in BOOLEAN}
         ELSE {[pc |-> "log", run |-> [p.run EXCEPT !.email_sent = FALSE],
                calls |-> p.calls, db |-> d]}
    ELSE {}

Deliver == \E n \in DeliverSteps(Proc, db) : Become(n)

\* a status that reports every run with a recipient as sent
StatusIgnoringDelivery(email_sent, recipient) ==
    IF recipient # "" THEN "sent" ELSE "completed"

\* "sent" if email_sent else ("completed" if not recipient else "email_failed")
Status(email_sent, recipient) ==
    IF email_sent THEN "sent"
    ELSE IF recipient = "" THEN "completed"
    ELSE "email_failed"

\* sum(len(ts.entries) for ts in topic_sections) or len(entries)
EntryCount(sections, flat) ==
    IF SumEntries(sections) # 0 THEN SumEntries(sections) ELSE Len(flat)

\* the row _log_digest inserts
LogRow(r) ==
    [recipient |-> r.recipient,
     source_count |-> Len(r.sources),
     article_count |-> Len(r.all_articles),
     entry_count |-> EntryCount(r.topic_sections, r.entries),
     status |-> Status(r.email_sent, r.recipient)]

\* _log_digest(...), then return digest
LogDigestSteps(p, d) ==
    IF p.pc = "log"
    THEN {[pc |-> "returned", run |-> p.run, calls |-> p.calls,
           db |-> [d EXCEPT !.digest_logs = Append(@, LogRow(p.run))]]}
    ELSE {}

LogDigest == \E n \in LogDigestSteps(Proc, db) : Become(n)

\* the steps a run can take from its place
RunSteps(p, d) ==
    GetSourcesSteps(p, d) \cup FetchSourceSteps(p, d) \cup UpdateLastFetchedSteps(p, d)
    \cup ExtractOneSteps(p, d) \cup EnrichmentDoneSteps(p, d) \cup ApplyBlocklistSteps(p, d)
    \cup MatchTopicsSteps(p, d) \cup StartArticleSummarySteps(p, d)
    \cup FinishArticleSummarySteps(p, d) \cup BuildSectionSteps(p, d)
    \cup SectionsBuiltSteps(p, d) \cup BuildOverviewSteps(p, d) \cup DeliverSteps(p, d)
    \cup LogDigestSteps(p, d)

NextRun ==
    \/ GetSources
    \/ FetchSource
    \/ UpdateLastFetched
    \/ ExtractOne
    \/ EnrichmentDone
    \/ ApplyBlocklist
    \/ MatchTopics
    \/ StartArticleSummary
    \/ FinishArticleSummary
    \/ BuildSection
    \/ SectionsBuilt
    \/ BuildOverview
    \/ Deliver
    \/ LogDigest

SpecRun == InitRun /\ [][NextRun]_vars

(***************************************************************************)
(* Two invocations of DigestPipeline.run that overlap                      *)
(* (src/app/scheduler/jobs.py run_daily_digest, src/app/api/__init__.py    *)
(* trigger_digest)                                                         *)
(*                                                                         *)
(* Each invocation builds its own DigestPipeline, summarizer and fetcher   *)
(* factory and has its own locals; the database connection is the one of   *)
(* get_db(). An invocation is suspended at its awaits, so the steps of the *)
(* two interleave in any order. runs[id] is [pc, run, calls] of the        *)
(* invocation id: its place, its locals and the calls it has made.         *)
(***************************************************************************)
RunIds == {1, 2}

\* the scheduled run mails the digest, the triggered one has no recipient
RecipientOf(id) == IF id = 1 THEN "reader@example.com" ELSE ""

\* what the collaborators answer to the overlapping runs
OverlapFetchLists == {<<Plain>>, <<Advert>>}
OverlapAnswers == {Unreachable, Content(OK_), Content(<<>>)}

InitOverlap ==
    /\ db \in [sources : {<<RssSource>>},
               topics : {<<>>, <<AlphaTopic>>},
               blocked_keywords : {<<AD>>},
               filter_scope : {"full_text"},
               last_fetched : {<<>>},
               digest_logs : {<<>>}]
    /\ runs = [id \in RunIds |->
                 [pc |-> "start",
                  run |-> [recipient |-> RecipientOf(id),
                           sources |-> <<>>,
                           i |-> 1,
                           all_articles |-> <<>>,
                           successful_source_ids |-> <<>>,
                           x |-> 1,
                           matches |-> <<>>,
                           j |-> 1,
                           k |-> 1,
                           article_summaries |-> <<>>,
                           topic_sections |-> <<>>,
                           summarizer_result |-> None,
                           entries |-> <<>>,
                           digest |-> None,
                           email_sent |-> FALSE,
                           exc |-> None],
                  calls |-> NoCalls]]
    /\ pc = "overlap"
    /\ run = <<>>
    /\ calls = <<>>
    /\ matched = <<>>
    /\ topics_by_id = <<>>
    /\ result = None
    /\ other = None
    /\ articles = <<>>
    /\ topics = <<>>
    /\ blocked_keywords = <<>>
    /\ use_full_text = FALSE
    /\ _scheduler = None
    /\ schedulers = <<>>

\* the answers recorded in a log of calls are among those drawn here
AnswersDrawn(c) ==
    /\ \A n \in 1..Len(c.fetch) : c.fetch[n].raised \/ c.fetch[n].returned \in OverlapFetchLists
    /\ \A n \in 1..Len(c.answers) : c.answers[n] \in OverlapAnswers
    /\ \A n \in 1..Len(c.overview) : c.overview[n].answer \in OverlapAnswers

\* runs that keep the aggregated articles in one place for all of them
OverlapStepsSharingArticles(rs, d, id) ==
    {[runs |-> [r \in RunIds |->
                  IF r = id
                  THEN [pc |-> n.pc, run |-> n.run, calls |-> n.calls]
                  ELSE [rs[r] EXCEPT !.run.all_articles = n.run.all_articles]],
      db |-> n.db] : n \in {m \in RunSteps(rs[id], d) : AnswersDrawn(m.calls)}}

\* a step of the invocation id: it reads and writes its own locals and the
\* database, and leaves the other invocation as it is
OverlapSteps(rs, d, id) ==
    {[runs |-> [rs EXCEPT ![id] = [pc |-> n.pc, run |-> n.run, calls |-> n.calls]],
      db |-> n.db] : n \in {m \in RunSteps(rs[id], d) : AnswersDrawn(m.calls)}}

StepOfRun(id) ==
    \E n \in OverlapSteps(runs, db, id) :
        /\ runs' = n.runs
        /\ db' = n.db
        /\ UNCHANGED <<pc, run, calls, callvars, schedvars>>

NextOverlap == \E id \in RunIds : StepOfRun(id)

SpecOverlap == InitOverlap /\ [][NextOverlap]_vars

(***************************************************************************)
(* The scheduler module (src/app/scheduler/jobs.py)                        *)
(*                                                                         *)
(* schedulers holds the AsyncIOScheduler objects created so far, each with *)
(* its running flag and the ids of its jobs; _scheduler is the module      *)
(* global: None, or the place in schedulers of the object it refers to.    *)
(* pc is the last call made: "idle" before any, "started", "stopped".      *)
(***************************************************************************)
MaxSchedulers == 6    \* calls of start_scheduler

InitScheduler ==
    /\ pc = "idle"
    /\ _scheduler = None
    /\ schedulers = <<>>
    /\ run = <<>>
    /\ runs = <<>>
    /\ db = <<>>
    /\ calls = <<>>
    /\ matched = <<>>
    /\ topics_by_id = <<>>
    /\ result = None
    /\ other = None
    /\ articles = <<>>
    /\ topics = <<>>
    /\ blocked_keywords = <<>>
    /\ use_full_text = FALSE

\* _scheduler = AsyncIOScheduler(); add_job(..., id="daily_digest",
\* replace_existing=True); _scheduler.start(); return _scheduler
start_scheduler ==
    /\ Len(schedulers) < MaxSchedulers
    /\ schedulers' = Append(schedulers, [running |-> TRUE, jobs |-> <<"daily_digest">>])
    /\ _scheduler' = Some(Len(schedulers) + 1)
    /\ pc' = "started"
    /\ UNCHANGED <<runvars, callvars>>

\* if _scheduler and _scheduler.running: _scheduler.shutdown()
\* _scheduler = None
stop_scheduler ==
    /\ schedulers' = IF _scheduler # None /\ schedulers[Value(_scheduler)].running
                     THEN [schedulers EXCEPT ![Value(_scheduler)].running = FALSE]
                     ELSE schedulers
    /\ _scheduler' = None
    /\ pc' = "stopped"
    /\ UNCHANGED <<runvars, callvars>>

\* the scheduler get_scheduler() returns: None, or its place in schedulers
get_scheduler == _scheduler

NextScheduler ==
    \/ start_scheduler
    \/ stop_scheduler

SpecScheduler == InitScheduler /\ [][NextScheduler]_vars

(***************************************************************************)
(* Properties of the deduplicator                                          *)
(***************************************************************************)
UrlsOf(items) == {items[i].article.url : i \in 1..Len(items)}

AllUrls(d) == UNION {UrlsOf(d[i].items) : i \in 1..Len(d)}

\* the topic ids under which a url is listed in a dict
Holders(d, url) == {d[i].tid : i \in {j \in 1..Len(d) : url \in UrlsOf(d[j].items)}}

\* how often a url is listed under one topic id
Occurrences(d, tid, url) ==
    Cardinality({i \in 1..Len(Get(d, tid, <<>>)) : Get(d, tid, <<>>)[i].article.url = url})

\* C1: after deduplicate_across_topics no article URL is listed under more
\* than one topic id, whatever the input mapping and the topic lookup.
C1_NoUrlUnderTwoTopics ==
    pc = "deduplicated" =>
        \A url \in AllUrls(matched) : Cardinality(Holders(result, url)) <= 1

C1_Witness ==
    /\ pc = "deduplicated"
    /\ \E url \in AllUrls(matched) :
          /\ Cardinality(Holders(matched, url)) >= 2
          /\ Cardinality(Holders(result, url)) = 1

\* C2: every URL of the input mapping is still listed after deduplication,
\* under exactly one topic id, also when a topic lists the same URL twice.
C2_EveryUrlKeptOnce ==
    pc = "deduplicated" =>
        \A url \in AllUrls(matched) : Cardinality(Holders(result, url)) = 1

\* the order the claim names: higher score, then higher priority, then smaller name
PriorityOf(tid) == IF tid \in DOMAIN topics_by_id THEN topics_by_id[tid].priority ELSE 0

NameOf(tid) == IF tid \in DOMAIN topics_by_id THEN topics_by_id[tid].name ELSE <<>>

Beats(e1, e2) ==
    \/ e1.score > e2.score
    \/ e1.score = e2.score /\ PriorityOf(e1.tid) > PriorityOf(e2.tid)
    \/ e1.score = e2.score /\ PriorityOf(e1.tid) = PriorityOf(e2.tid)
         /\ StrLess(NameOf(e1.tid), NameOf(e2.tid))

Candidates(url) == {e \in Range(AllEntries(matched)) : e.url = url}

DistinctNames(d) == \A s, t \in Keys(d) : s # t => NameOf(s) # NameOf(t)

\* C4: for topics with distinct names, the same topic lists enumerated in
\* another key order give the same list for every topic id.
C4_OrderIndependent ==
    (pc = "reordered" /\ DistinctNames(matched)) =>
        /\ Keys(other) = Keys(result)
        /\ \A tid \in Keys(matched) : Get(other, tid, None) = Get(result, tid, None)

\* a tie on score and priority, settled by name, with the keys enumerated in another order
C4_Witness ==
    /\ pc = "reordered"
    /\ DistinctNames(matched)
    /\ [i \in 1..Len(other) |-> other[i].tid] # [i \in 1..Len(result) |-> result[i].tid]
    /\ \E url \in AllUrls(matched) :
          \E e, f \in Candidates(url) :
              /\ e.tid # f.tid
              /\ e.score = f.score
              /\ PriorityOf(e.tid) = PriorityOf(f.tid)
              /\ Holders(result, url) = {e.tid}

\* C5: deduplicating the output of a deduplication returns that output.
C5_Idempotent == pc = "again" => other = result

C5_Witness == pc = "again" /\ result # matched /\ other = result

C7_RankCappedAndSorted ==
    pc = "ranked" =>
        /\ Len(result) <= topics[1].max_articles
        /\ \A i, j \in 1..Len(result) : i < j => result[i].score >= result[j].score

\* three accepted articles, cut to two, the better one listed later in the input
C7_Witness ==
    /\ pc = "ranked"
    /\ Len(articles) = 3
    /\ \A i \in 1..3 : score_article_for_topic(articles[i], topics[1]) # None
    /\ Len(result) = 2
    /\ result[1].score > result[2].score
    /\ result[1].article # articles[1]

\* sub occurs in text
Occurs(sub, text) ==
    \E i \in 0..(Len(text) - Len(sub)) : \A k \in 1..Len(sub) : text[i + k] = sub[k]

\* the searchable text: title, preview and (when there is one) full text,
\* joined by single spaces, in lower case
SearchText(a) ==
    Lower(a.title \o <<32>> \o a.content_preview
          \o (IF a.full_text = <<>> THEN <<>> ELSE <<32>> \o a.full_text))

\* a pattern matches: it is a regular expression and it is found, whatever the case
PatternHit(pattern, text) == ~ReError(pattern) /\ Occurs(Lower(pattern), Lower(text))

AnyPatternHit(patterns, text) == \E i \in 1..Len(patterns) : PatternHit(patterns[i], text)

AnyKeywordOccurs(keywords, text) ==
    \E i \in 1..Len(keywords) : Occurs(Lower(keywords[i]), text)

\* C8: score_article_for_topic returns a match exactly when no exclude pattern
\* matches the searchable text, the include list is empty or one of its
\* patterns matches, and the keyword list is empty or one keyword occurs.
C8_ScoreAcceptsIff ==
    pc = "scored" =>
        LET text == SearchText(articles[1])
            topic == topics[1]
        IN  (result # None) <=>
               /\ ~AnyPatternHit(topic.exclude_patterns, text)
               /\ (topic.include_patterns = <<>> \/ AnyPatternHit(topic.include_patterns, text))
               /\ (topic.keywords = <<>> \/ AnyKeywordOccurs(topic.keywords, text))

\* an exclude pattern matches and a keyword occurs: rejected
C8_Witness ==
    /\ pc = "scored"
    /\ result = None
    /\ AnyPatternHit(topics[1].exclude_patterns, SearchText(articles[1]))
    /\ AnyKeywordOccurs(topics[1].keywords, SearchText(articles[1]))
    /\ topics[1].include_patterns = <<>>

\* C9: in the mapping returned by match_articles_to_topics every key is the
\* id of an enabled topic and every value is a non-empty list; a disabled
\* topic has no key.
C9_MatchKeysEnabledNonEmpty ==
    pc = "matched" =>
        /\ \A i \in 1..Len(result) :
              /\ result[i].items # <<>>
              /\ \E j \in 1..Len(topics) : topics[j].id = result[i].tid /\ topics[j].enabled
        /\ \A j \in 1..Len(topics) : ~topics[j].enabled => topics[j].id \notin Keys(result)

\* a disabled topic that would rank an article is absent, an enabled one is present
C9_Witness ==
    /\ pc = "matched"
    /\ result # <<>>
    /\ \E j \in 1..Len(topics) :
          /\ ~topics[j].enabled
          /\ rank_articles_for_topic(articles, topics[j]) # <<>>
          /\ topics[j].id \notin Keys(result)

(***************************************************************************)
(* Properties of the blocklist filter                                      *)
(***************************************************************************)
\* C10 as stated: with the default scope the filter keeps exactly the
\* articles whose title does not contain a blocked term and whose content
\* preview does not contain one (case-insensitively), in input order.
C10_PerFieldFilter ==
    (pc = "filtered" /\ ~use_full_text) =>
        result = SelectSeq(articles,
                    LAMBDA a : \A i \in 1..Len(blocked_keywords) :
                        /\ ~Occurs(Lower(blocked_keywords[i]), Lower(a.title))
                        /\ ~Occurs(Lower(blocked_keywords[i]), Lower(a.content_preview)))

\* C10 amended: with the default scope the filter keeps exactly the articles,
\* in input order, for which the text title + " " + content preview contains
\* no blocked term, case-insensitively; full_text plays no part, and an empty
\* blocked list returns the input list.
C10_JoinedTextFilter ==
    (pc = "filtered" /\ ~use_full_text) =>
        /\ result = SelectSeq(articles,
                       LAMBDA a : \A i \in 1..Len(blocked_keywords) :
                           ~Occurs(Lower(blocked_keywords[i]),
                                   Lower(a.title \o <<32>> \o a.content_preview)))
        /\ blocked_keywords = <<>> => result = articles

\* one article removed for a term written in another case, one kept although
\* its full text holds a blocked term
C10_Witness ==
    /\ pc = "filtered"
    /\ ~use_full_text
    /\ \E i \in 1..Len(articles) :
          /\ articles[i] \notin Range(result)
          /\ \E k \in 1..Len(blocked_keywords) :
                /\ ~Occurs(blocked_keywords[k], articles[i].title \o <<32>> \o articles[i].content_preview)
                /\ Occurs(Lower(blocked_keywords[k]), Lower(articles[i].title))
    /\ \E i \in 1..Len(articles) :
          /\ articles[i] \in Range(result)
          /\ \E k \in 1..Len(blocked_keywords) :
                Occurs(Lower(blocked_keywords[k]), Lower(articles[i].full_text))

(***************************************************************************)
(* Properties of the digest run                                            *)
(***************************************************************************)
\* the run has left the loop over the sources
FetchingDone == pc \notin {"start", "fetch"}

\* the fetches that returned a list
Succeeded == SelectSeq(calls.fetch, LAMBDA f : ~f.raised)

RECURSIVE SumCounts(_)
SumCounts(fetches) ==
    IF fetches = <<>> THEN 0 ELSE Head(fetches).count + SumCounts(Tail(fetches))

\* the number of articles the succeeding sources returned
FetchedCount == SumCounts(Succeeded)

\* C11: a source whose fetch raises contributes no article and stops neither
\* the fetching of the other sources nor the run; last-fetched is updated for
\* exactly the sources whose fetch succeeded, and the Digest's article_count
\* is the number of articles the succeeding sources returned.
C11_FetchFailureIsolated ==
    /\ run.exc = None =>
          \A k \in 1..Len(calls.fetch) : calls.fetch[k].raised => calls.fetch[k].count = 0
    /\ FetchingDone => Len(calls.create) = Len(run.sources)
    /\ Range(db.last_fetched) =
          IF FetchingDone THEN {Succeeded[k].source_id : k \in 1..Len(Succeeded)} ELSE {}
    /\ run.digest # None => Value(run.digest).article_count = FetchedCount

\* C12: the article_count of the returned Digest and of the digest log is the
\* number of articles aggregated from the successful fetches before the
\* blocklist filter removes any.
C12_ArticleCountIsPreFilter ==
    pc = "returned" =>
        /\ Value(run.digest).article_count = FetchedCount
        /\ \A k \in 1..Len(db.digest_logs) : db.digest_logs[k].article_count = FetchedCount

\* C13: every topic section of the returned Digest has at least one entry.
C13_NoEmptyTopicSection ==
    pc = "returned" =>
        \A k \in 1..Len(Value(run.digest).topic_sections) :
            Value(run.digest).topic_sections[k].entries # <<>>

\* the digest-log record of the run and the outcome of its delivery attempt
LogRecord == db.digest_logs[1]
Delivered == calls.send # <<>> /\ calls.send[Len(calls.send)].ok

C15_DeliveryIffRecipient ==
    /\ [](/\ pc \in {"log", "returned"} =>
                /\ calls.send # <<>> <=> run.recipient # ""
                /\ Len(calls.send) <= 1
                /\ run.exc = None
                /\ run.digest # None
          /\ pc \notin {"log", "returned"} => calls.send = <<>>
          /\ pc = "raised" => calls.send = <<>>)
    /\ [][(pc = "deliver" \/ pc = "log") =>
             (run'.digest = run.digest /\ pc' \in {"log", "returned"})]_vars

\* a run whose delivery failed has returned its Digest
C15_Witness ==
    /\ pc = "returned"
    /\ run.recipient # ""
    /\ Len(calls.send) = 1
    /\ ~calls.send[1].ok
    /\ run.digest # None
    /\ Value(run.digest).entries # <<>>

NoArticlesKind == "No articles to summarize."

\* C16 as stated: a run with no enabled source returns a Digest with
\* source_count 0, article_count 0 and the "no articles" summary, and the
\* summarizer's summarize operation is not invoked.
C16_NoSourcesNoSummarize ==
    pc = "returned" /\ db.sources = <<>> =>
        /\ Value(run.digest).source_count = 0
        /\ Value(run.digest).article_count = 0
        /\ Value(run.digest).summary.kind = NoArticlesKind
        /\ calls.summarize = <<>>

\* C16, amended: a run with no enabled source returns a Digest with
\* source_count 0, article_count 0 and the "no articles" summary without any
\* call of the language model: summarize is invoked once, with the empty
\* list, and answers by itself.
C16_NoSourcesNoModelCall ==
    pc = "returned" /\ db.sources = <<>> =>
        /\ Value(run.digest).source_count = 0
        /\ Value(run.digest).article_count = 0
        /\ Value(run.digest).summary.kind = NoArticlesKind
        /\ calls.summarize = <<0>>
        /\ calls.summarize_overview = <<>>
        /\ calls.chat = 0

\* a run without sources, with topics configured, has returned
C16_Witness ==
    /\ pc = "returned"
    /\ db.sources = <<>>
    /\ db.topics # <<>>
    /\ Value(run.digest).summary.kind = NoArticlesKind

\* the text that stands in for a failed per-article call
ArticleFallback(article) ==
    IF article.content_preview # <<>>
    THEN SubSeq(article.content_preview, 1, Min(Len(article.content_preview), FallbackPreviewLen))
    ELSE article.title

\* C17: no answer of the language model makes an exception leave run(): a
\* failed per-article call is replaced by the preview (truncated) or the
\* title, a failed overview call by a listing of topic names or of article
\* titles, and a Digest is returned.
C17_NeverAbortsOnSummarization ==
    /\ pc # "raised"
    /\ run.exc = None
    /\ \A k \in 1..Len(run.topic_sections) :
          \A e \in 1..Len(run.topic_sections[k].entries) :
              LET entry == run.topic_sections[k].entries[e]
              IN  entry.summary \in {OK_, ArticleFallback(entry.article)}
    /\ run.summarizer_result # None =>
          Value(run.summarizer_result).summary.kind \in
              {"content", "Today's digest covers:", "Today's articles:",
               NoArticlesKind, "No topics to summarize."}
    /\ pc \in {"deliver", "log", "returned"} => run.digest # None

\* C18: the entry_count of the digest log is the sum of the entry counts of
\* the topic sections when the Digest has topic sections, and the number of
\* flat entries only when it has none.
C18_EntryCountOfSections ==
    pc = "returned" =>
        LogRecord.entry_count =
            IF Value(run.digest).topic_sections # <<>>
            THEN SumEntries(Value(run.digest).topic_sections)
            ELSE Len(Value(run.digest).entries)

\* the sources of the run with the given id
SourcesWithId(id) == {run.sources[k] : k \in {n \in 1..Len(run.sources) : run.sources[n].id = id}}

\* C19: for a source whose type has no registered fetcher create_fetcher
\* raises, and no fetch is attempted for that source; create_fetcher returns
\* a fetcher for registered types only.
C19_UnregisteredTypeRaises ==
    /\ \A k \in 1..Len(calls.create) :
          LET made == calls.create[k]
          IN  /\ made.type = run.sources[k].type
              /\ made.type \notin {"rss", "reddit", "web"} => made.raised /\ made.fetcher = None
              /\ made.fetcher # None => made.type \in {"rss", "reddit", "web"}
              /\ made.raised <=> made.fetcher = None
    /\ \A k \in 1..Len(calls.fetch) :
          \A source \in SourcesWithId(calls.fetch[k].source_id) :
              source.type \in {"rss", "reddit", "web"}
    /\ Len(calls.fetch) = Len(SelectSeq(calls.create, LAMBDA made : ~made.raised))

\* the source of unknown type was passed over and the next one was fetched
C19_Witness ==
    /\ FetchingDone
    /\ run.sources = <<AtomSource, RssSource>>
    /\ calls.create[1].raised
    /\ Len(calls.fetch) = 1
    /\ calls.fetch[1].source_id = RssSource.id
    /\ ~calls.fetch[1].raised

(***************************************************************************)
(* More properties of the ranker                                           *)
(***************************************************************************)
\* the place of the i-th accepted article in the stable descending order:
\* behind every higher score and behind every earlier article of equal score
StablePlace(acc, i) ==
    1 + Cardinality({j \in 1..Len(acc) :
                        \/ acc[j].score > acc[i].score
                        \/ acc[j].score = acc[i].score /\ j < i})

\* C20: rank_articles_for_topic returns the first max_articles elements of
\* the stable descending-by-score order of the accepted articles: equal
\* scores keep their input order, and an accepted article that is left out
\* scores no higher than any returned one.
C20_RankIsStablePrefix ==
    pc = "ranked" =>
        LET acc == ScoredList(articles, topics[1])
            k == Min(Len(acc), topics[1].max_articles)
        IN  /\ Len(result) = k
            /\ \A i \in 1..Len(acc) :
                  IF StablePlace(acc, i) <= k
                  THEN result[StablePlace(acc, i)] = acc[i]
                  ELSE \A r \in 1..Len(result) : acc[i].score <= result[r].score

\* two different accepted articles of equal score, the earlier one returned
\* and the later one cut off
C20_Witness ==
    /\ pc = "ranked"
    /\ LET acc == ScoredList(articles, topics[1])
           k == Min(Len(acc), topics[1].max_articles)
       IN  \E i, j \in 1..Len(acc) :
              /\ i < j
              /\ acc[i].score = acc[j].score
              /\ acc[i].article # acc[j].article
              /\ StablePlace(acc, i) <= k
              /\ StablePlace(acc, j) > k
              /\ result[StablePlace(acc, i)] = acc[i]

(***************************************************************************)
(* More properties of the scorer                                           *)
(***************************************************************************)
\* the number of places of text where sub starts
OccurrenceCount(sub, text) ==
    Cardinality({i \in 0..(Len(text) - Len(sub)) : \A k \in 1..Len(sub) : text[i + k] = sub[k]})

\* 10 + 2 * min(count - 1, 5) for a keyword that occurs, 0 for one that does not
PointsFor(kw, text) ==
    LET count == OccurrenceCount(Lower(kw), text)
    IN  IF count = 0 THEN 0
        ELSE IF count - 1 < 5 THEN 2000 + 400 * (count - 1)
        ELSE 2000 + 400 * 5

RECURSIVE SumPoints(_, _)
SumPoints(keywords, text) ==
    IF keywords = <<>> THEN 0
    ELSE PointsFor(Head(keywords), text) + SumPoints(Tail(keywords), text)

\* C21: the keyword score is the sum, over the keywords that occur in the
\* text whatever the case, of 10 + 2 * min(count - 1, 5): a matched keyword
\* contributes between 10 and 20, a keyword that does not occur contributes
\* nothing and is not recorded as matched, and three occurrences of one
\* keyword score 14.
C21_KeywordScoreSum ==
    pc = "scored" =>
        LET text == SearchText(articles[1])
            keywords == topics[1].keywords
            occurring == SelectSeq(keywords, LAMBDA kw : OccurrenceCount(Lower(kw), text) > 0)
            scored == _keyword_score(text, keywords)
        IN  /\ scored.score = SumPoints(keywords, text)
            /\ scored.matched = occurring
            /\ scored.score >= 2000 * Len(occurring)
            /\ scored.score <= 4000 * Len(occurring)
            /\ Len(keywords) = 1 /\ OccurrenceCount(Lower(keywords[1]), text) = 3 =>
                  scored.score = 2800
            /\ result # None =>
                  /\ Value(result).matched_keywords = occurring
                  /\ Value(result).score =
                        SumPoints(keywords, text) + _recency_score(articles[1])
                            + topics[1].priority * 100 + SourceBonus(articles[1])

\* one keyword occurs three times, the other does not occur
C21_Witness ==
    /\ pc = "scored"
    /\ topics[1].keywords = <<zz, ai>>
    /\ OccurrenceCount(ai, SearchText(articles[1])) = 3
    /\ OccurrenceCount(zz, SearchText(articles[1])) = 0
    /\ result # None
    /\ Value(result).matched_keywords = <<ai>>
    /\ Value(result).score =
          2800 + _recency_score(articles[1]) + topics[1].priority * 100
              + SourceBonus(articles[1])

\* the patterns of a list that are regular expressions
ValidPatterns(patterns) == SelectSeq(patterns, LAMBDA pattern : ~ReError(pattern))

\* C22: a pattern that is no regular expression never makes scoring raise;
\* it counts as not matching, alone, and the other patterns of its list are
\* still tried, so a valid pattern later in the list still decides.
C22_InvalidPatternSkipped ==
    pc = "scored" =>
        LET text == SearchText(articles[1])
            topic == topics[1]
            included == \E i \in 1..Len(ValidPatterns(topic.include_patterns)) :
                            Occurs(Lower(ValidPatterns(topic.include_patterns)[i]), text)
            excluded == \E i \in 1..Len(ValidPatterns(topic.exclude_patterns)) :
                            Occurs(Lower(ValidPatterns(topic.exclude_patterns)[i]), text)
        IN  /\ _pattern_matches(text, topic.include_patterns) <=> included
            /\ _pattern_matches(text, topic.exclude_patterns) <=> excluded
            /\ (result # None) <=>
                  /\ ~excluded
                  /\ topic.include_patterns = <<>> \/ included
                  /\ topic.keywords = <<>> \/ AnyKeywordOccurs(topic.keywords, text)

\* the include list starts with a pattern that does not compile, and the
\* valid pattern behind it accepts the article
C22_Witness ==
    /\ pc = "scored"
    /\ topics[1].include_patterns = <<Bracket, ad>>
    /\ ReError(topics[1].include_patterns[1])
    /\ Occurs(ad, SearchText(articles[1]))
    /\ topics[1].exclude_patterns = <<Bracket>>
    /\ result # None

(***************************************************************************)
(* More properties of the blocklist filter                                 *)
(***************************************************************************)
\* a blocked term occurs, whatever the case, in the given text
BlockedIn(text) ==
    \E i \in 1..Len(blocked_keywords) : Occurs(Lower(blocked_keywords[i]), Lower(text))

\* C23: with use_full_text=True the filter searches the full text in addition
\* to the title and the content preview: an article is removed when a blocked
\* term occurs in its title, its preview or its full text, so every article
\* removed with use_full_text=False is removed with use_full_text=True too.
C23_FullTextScopeAddsFullText ==
    (pc = "filtered" /\ use_full_text) =>
        /\ \A i \in 1..Len(articles) :
              (BlockedIn(articles[i].title) \/ BlockedIn(articles[i].content_preview)
                  \/ BlockedIn(articles[i].full_text))
                  => articles[i] \notin Range(result)
        /\ \A i \in 1..Len(articles) :
              articles[i] \notin Range(filter_blocked_articles(articles, blocked_keywords, FALSE))
                  => articles[i] \notin Range(result)

(***************************************************************************)
(* More properties of the digest run                                       *)
(***************************************************************************)
RECURSIVE Flatten(_)
Flatten(lists) ==
    IF lists = <<>> THEN <<>> ELSE Head(lists) \o Flatten(Tail(lists))

\* the articles of a dict topic_id -> list[ScoredArticle], topic after topic
MatchedArticles(m) ==
    Flatten([n \in 1..Len(m) |-> [e \in 1..Len(m[n].items) |-> m[n].items[e].article]])

\* the articles of the entries of the topic sections, section after section
SectionArticles(sections) ==
    Flatten([n \in 1..Len(sections) |->
                [e \in 1..Len(sections[n].entries) |-> sections[n].entries[e].article]])

EntryArticles(entries) == [e \in 1..Len(entries) |-> entries[e].article]

\* the articles handed to summarize_article, in call order
SummarizedArticles == [n \in 1..Len(calls.summarize_article) |-> calls.summarize_article[n].article]

\* the articles the blocklist filter was given and did not return
Removed ==
    UNION {{a \in Range(calls.filter[n].articles) : a \notin Range(calls.filter[n].kept)} :
              n \in 1..Len(calls.filter)}

\* the articles that are matched, sectioned, listed in the Digest or given to
\* a summarization call
ArticlesDownstream ==
    Range(MatchedArticles(run.matches))
    \cup Range(SectionArticles(run.topic_sections))
    \cup Range(EntryArticles(run.entries))
    \cup (IF run.digest = None THEN {}
          ELSE Range(SectionArticles(Value(run.digest).topic_sections))
               \cup Range(EntryArticles(Value(run.digest).entries)))
    \cup Range(SummarizedArticles)
    \cup Range(calls.pending)
    \cup UNION {Range(calls.overview[n].articles) : n \in 1..Len(calls.overview)}

\* the run has not come to the blocklist filter yet
BeforeFilter == pc \in {"start", "fetch", "extract", "filter"}

\* C24: the blocklist is a hard pre-filter of the whole run: it is applied
\* once (when there are blocked keywords), to the aggregated articles after
\* their enrichment and before topic matching, with the persisted keywords
\* and the persisted scope setting; an article it removes is in no topic
\* section, not among the flat entries and is given to no summarization call.
C24_BlocklistIsHardPreFilter ==
    /\ BeforeFilter =>
          (calls.filter = <<>> /\ run.matches = <<>> /\ ArticlesDownstream = {})
    /\ (~BeforeFilter /\ db.blocked_keywords = <<>>) => calls.filter = <<>>
    /\ (~BeforeFilter /\ db.blocked_keywords # <<>>) =>
          /\ Len(calls.filter) = 1
          /\ Len(calls.filter[1].articles) = FetchedCount
          /\ run.x = FetchedCount + 1
          /\ \A n \in 1..FetchedCount :
                calls.filter[1].articles[n].full_text = <<>> =>
                    \E e \in 1..Len(calls.extract) :
                        calls.extract[e].index = n /\ ~calls.extract[e].success
          /\ calls.filter[1].blocked_keywords = db.blocked_keywords
          /\ calls.filter[1].use_full_text = (db.filter_scope = "full_text")
          /\ calls.filter[1].kept =
                filter_blocked_articles(calls.filter[1].articles, db.blocked_keywords,
                                        db.filter_scope = "full_text")
          /\ pc # "raised" => run.all_articles = calls.filter[1].kept
    /\ ArticlesDownstream \cap Removed = {}
    /\ ArticlesDownstream \subseteq Range(run.all_articles)

\* a returned Digest with a topic section of an article that passed the
\* filter, after the filter removed another article
C24_Witness ==
    /\ pc = "returned"
    /\ Len(calls.filter) = 1
    /\ Removed # {}
    /\ calls.filter[1].kept # <<>>
    /\ Range(SectionArticles(Value(run.digest).topic_sections)) # {}
    /\ Range(SummarizedArticles) # {}
    /\ Range(EntryArticles(Value(run.digest).entries)) = Range(calls.filter[1].kept)

\* the articles the succeeding fetches returned, in the order of the sources
Aggregated == Flatten([n \in 1..Len(Succeeded) |-> Succeeded[n].returned])

\* the aggregated articles with the text of every successful extraction
EnrichedArticles(fetched, extractions) ==
    [n \in 1..Len(fetched) |->
        IF \E e \in 1..Len(extractions) : extractions[e].index = n /\ extractions[e].success
        THEN [fetched[n] EXCEPT !.full_text = ExtractedText]
        ELSE fetched[n]]

\* the articles that remain after the blocklist filter
Remaining(fetched, extractions, d) ==
    IF d.blocked_keywords = <<>>
    THEN EnrichedArticles(fetched, extractions)
    ELSE filter_blocked_articles(EnrichedArticles(fetched, extractions), d.blocked_keywords,
                                 d.filter_scope = "full_text")

\* C25: the flat entries of the Digest are built in topic mode and in legacy
\* mode alike: one entry for each article that remains after the blocklist
\* filter, in aggregation order, with the content preview as summary or, when
\* the preview is empty, the title; without enabled topics no per-article
\* summarization call is made and the Digest has no topic sections.
C25_FlatEntriesAlwaysBuilt ==
    /\ run.digest # None =>
          LET digest == Value(run.digest)
              remaining == Remaining(Aggregated, calls.extract, db)
          IN  /\ Len(digest.entries) = Len(remaining)
              /\ \A n \in 1..Len(remaining) :
                    /\ digest.entries[n].article = remaining[n]
                    /\ digest.entries[n].summary =
                          IF remaining[n].content_preview # <<>>
                          THEN remaining[n].content_preview
                          ELSE remaining[n].title
              /\ db.topics = <<>> => digest.topic_sections = <<>>
    /\ pc = "returned" => run.digest # None
    /\ db.topics = <<>> =>
          /\ calls.summarize_article = <<>>
          /\ calls.pending = <<>>
          /\ calls.answers = <<>>
          /\ run.topic_sections = <<>>

\* a Digest returned in topic mode with a topic section, whose flat entries
\* hold an article with a preview and one without, after the filter removed one
C25_Witness ==
    /\ pc = "returned"
    /\ db.topics # <<>>
    /\ SectionArticles(Value(run.digest).topic_sections) # <<>>
    /\ Removed # {}
    /\ Len(Value(run.digest).entries) = 2
    /\ Value(run.digest).entries[1].summary = Value(run.digest).entries[1].article.title
    /\ Value(run.digest).entries[2].summary = Value(run.digest).entries[2].article.content_preview
    /\ Value(run.digest).entries[2].summary # Value(run.digest).entries[2].article.title

\* a Digest returned in legacy mode: flat entries and no topic section
C25_LegacyWitness ==
    /\ pc = "returned"
    /\ db.topics = <<>>
    /\ Value(run.digest).entries # <<>>
    /\ Value(run.digest).topic_sections = <<>>

\* the articles of the topics whose batch the run has reached, topic after
\* topic, up to the n-th article of the topic the loop is at
ArticlesUpTo(n) ==
    MatchedArticles(SubSeq(run.matches, 1, run.j - 1))
    \o (IF run.j <= Len(run.matches)
        THEN SubSeq(ArticlesForTopic(Proc), 1, n)
        ELSE <<>>)

\* C26: per-article summarization within a run is strictly sequential: at
\* most one per-article call is in flight at any time, a call starts only
\* after the previous one has returned (with the model's text or with the
\* fallback), the calls are made in the order of the topic's deduplicated
\* list, and the entries of the section keep that order.
C26_SequentialSummaries ==
    /\ Len(calls.pending) <= 1
    /\ Len(calls.summarize_article) = Len(calls.answers) + Len(calls.pending)
    /\ calls.pending # <<>> <=> pc = "summarizing"
    /\ calls.pending # <<>> =>
          calls.pending[1] = SummarizedArticles[Len(calls.summarize_article)]
    /\ pc \in {"sections", "summarizing"} =>
          /\ SummarizedArticles = ArticlesUpTo(run.k - 1 + Len(calls.pending))
          /\ Len(run.article_summaries) = run.k - 1
          /\ \A n \in 1..Len(run.article_summaries) :
                LET made == Len(MatchedArticles(SubSeq(run.matches, 1, run.j - 1))) + n
                IN  /\ run.article_summaries[n].article = ArticlesForTopic(Proc)[n]
                    /\ run.article_summaries[n] =
                          summarize_article(SummarizedArticles[made], calls.answers[made])
    /\ \A n \in 1..Len(run.topic_sections) :
          /\ run.topic_sections[n].topic_id = run.matches[n].tid
          /\ EntryArticles(run.topic_sections[n].entries) =
                [e \in 1..Len(run.matches[n].items) |-> run.matches[n].items[e].article]
    /\ pc \in {"overview", "deliver", "log", "returned"} =>
          /\ SummarizedArticles = MatchedArticles(run.matches)
          /\ SectionArticles(run.topic_sections) = SummarizedArticles
          /\ \A n \in 1..Len(SummarizedArticles) :
                LET entries == Flatten([s \in 1..Len(run.topic_sections) |->
                                           run.topic_sections[s].entries])
                IN  entries[n].summary =
                        summarize_article(SummarizedArticles[n], calls.answers[n]).summary

\* a section of two entries, in the order of the topic's list, whose first
\* call fell back on the preview and whose second call returned the model's text
C26_Witness ==
    /\ pc = "returned"
    /\ Len(run.matches) >= 1
    /\ Len(run.matches[1].items) = 2
    /\ run.matches[1].items[1].article # run.matches[1].items[2].article
    /\ Len(calls.answers) = 2
    /\ calls.answers[1].kind = "unreachable"
    /\ calls.answers[2] = Content(OK_)
    /\ Len(run.topic_sections[1].entries) = 2
    /\ run.topic_sections[1].entries[2].summary = OK_

\* the extraction attempts made for the n-th aggregated article
Attempts(n) == {e \in 1..Len(calls.extract) : calls.extract[e].index = n}

\* C27: during enrichment, extraction is attempted exactly once for each
\* aggregated article that has no full text and never for an article that
\* has full text; full_text is written only when the extraction succeeds, at
\* most once per article; a failed extraction leaves full_text empty and
\* stops neither the enrichment of the remaining articles nor the run.
C27_ExtractionOncePerArticleLackingText ==
    /\ pc \in {"start", "fetch"} => calls.extract = <<>>
    /\ pc \notin {"start", "fetch"} =>
          /\ \A n \in 1..Len(Aggregated) :
                /\ Cardinality(Attempts(n)) =
                      IF Aggregated[n].full_text = <<>> /\ n < run.x THEN 1 ELSE 0
                /\ \A e \in Attempts(n) : calls.extract[e].url = Aggregated[n].url
          /\ \A e \in 1..Len(calls.extract) : calls.extract[e].index \in 1..Len(Aggregated)
          /\ \A e, f \in 1..Len(calls.extract) :
                e < f => calls.extract[e].index < calls.extract[f].index
    /\ pc \in {"extract", "filter"} =>
          /\ Len(run.all_articles) = Len(Aggregated)
          /\ \A n \in 1..Len(Aggregated) :
                run.all_articles[n] =
                    IF \E e \in Attempts(n) : calls.extract[e].success
                    THEN [Aggregated[n] EXCEPT !.full_text = ExtractedText]
                    ELSE Aggregated[n]
    /\ pc \notin {"start", "fetch", "extract"} => run.x = Len(Aggregated) + 1
    /\ pc = "raised" =>
          (run.x = Len(Aggregated) + 1 /\ \E n \in 1..Len(calls.answers) :
                                              calls.answers[n] = Content(<<>>))

\* a run that returned after an article with full text was passed over, the
\* extraction for the next article failed and the one after it succeeded
C27_Witness ==
    /\ pc = "returned"
    /\ Len(Aggregated) = 3
    /\ Aggregated[1].full_text # <<>>
    /\ calls.extract = <<[index |-> 2, url |-> Aggregated[2].url, success |-> FALSE],
                         [index |-> 3, url |-> Aggregated[3].url, success |-> TRUE]>>
    /\ db.blocked_keywords = <<>>
    /\ Value(run.digest).entries[1].article.full_text = Aggregated[1].full_text
    /\ Value(run.digest).entries[2].article.full_text = <<>>
    /\ Value(run.digest).entries[3].article.full_text = ExtractedText

\* the run is over: run() has returned or an exception has left it
RunOver == pc \in {"returned", "raised"}

\* what the overview step is to be given: the names of the sections that
\* have entries, each with the titles of its articles
NamesAndTitles(sections) ==
    LET with_entries == SelectSeq(sections, LAMBDA ts : ts.entries # <<>>)
    IN  [n \in 1..Len(with_entries) |->
            [topic |-> with_entries[n].topic_name,
             headlines |-> [e \in 1..Len(with_entries[n].entries) |->
                               with_entries[n].entries[e].article.title]]]

\* the overview summarization call of the run is made as it should be: after
\* every per-article call, and by the method and with the argument that the
\* topic sections decide
OverviewCallInOrder ==
    calls.overview # <<>> =>
        LET call == calls.overview[1]
        IN  /\ call.after = Len(MatchedArticles(run.matches))
            /\ Len(calls.summarize_article) = call.after
            /\ Len(calls.answers) = call.after
            /\ calls.pending = <<>>
            /\ run.topic_sections # <<>> =>
                  /\ call.method = "summarize_overview"
                  /\ call.topic_summaries = NamesAndTitles(run.topic_sections)
                  /\ calls.summarize = <<>>
                  /\ Len(calls.summarize_overview) = 1
            /\ run.topic_sections = <<>> =>
                  /\ call.method = "summarize"
                  /\ call.articles = Remaining(Aggregated, calls.extract, db)
                  /\ calls.summarize_overview = <<>>
                  /\ Len(calls.summarize) = 1

\* C28: each run makes exactly one overview summarization call, after all
\* per-article summarization has finished: with topic sections it is the
\* overview call, built only from the topic names and the article titles of
\* the sections that have entries, and the flat summarize is not called;
\* without topic sections it is the flat summarize over the filtered articles.
C28_ExactlyOneOverviewCall ==
    /\ Len(calls.overview) <= 1
    /\ RunOver => Len(calls.overview) = 1
    /\ OverviewCallInOrder

(***************************************************************************)
(* Properties of overlapping runs                                          *)
(*                                                                         *)
(* What a run returns and logs when it runs alone is a function of the     *)
(* database rows it reads and of the answers of its collaborators, which   *)
(* its log of calls holds: DigestAlone and LogAlone compute it by the      *)
(* stages of run(), and RunAloneAgrees states that the single run of       *)
(* SpecRun returns and logs exactly that.                                  *)
(***************************************************************************)
AggregatedOf(c) ==
    LET succeeded == SelectSeq(c.fetch, LAMBDA f : ~f.raised)
    IN  Flatten([n \in 1..Len(succeeded) |-> succeeded[n].returned])

RemainingOf(c, d) == Remaining(AggregatedOf(c), c.extract, d)

MatchesOf(c, d) ==
    IF d.topics = <<>> THEN <<>>
    ELSE deduplicate_across_topics(
             match_articles_to_topics(RemainingOf(c, d), d.topics),
             [id \in {d.topics[n].id : n \in 1..Len(d.topics)} |-> TopicOf(d, id)])

\* the topic sections, each article with the summary of its own call
SectionsOf(c, d) ==
    LET m == MatchesOf(c, d)
    IN  [n \in 1..Len(m) |->
           LET before == Len(MatchedArticles(SubSeq(m, 1, n - 1)))
           IN  [topic_name |-> TopicOf(d, m[n].tid).name,
                topic_id |-> m[n].tid,
                entries |-> [e \in 1..Len(m[n].items) |->
                                [article |-> m[n].items[e].article,
                                 summary |-> summarize_article(m[n].items[e].article,
                                                               c.answers[before + e]).summary]]]]

DigestAlone(c, d) ==
    LET remaining == RemainingOf(c, d)
        sections == SectionsOf(c, d)
        answer == c.overview[1].answer
        summarizer_result == IF sections # <<>>
                             THEN summarize_overview(TopicSummaries(sections), answer)
                             ELSE summarize(remaining, answer)
    IN  Digest(FlatEntries(remaining), sections, summarizer_result, d.sources, remaining)

LogAlone(c, d, recipient) ==
    [recipient |-> recipient,
     source_count |-> Len(d.sources),
     article_count |-> Len(RemainingOf(c, d)),
     entry_count |-> EntryCount(SectionsOf(c, d), FlatEntries(RemainingOf(c, d))),
     status |-> Status(c.send # <<>> /\ c.send[1].ok, recipient)]

\* the run of SpecRun, which runs alone, returns DigestAlone and logs LogAlone
RunAloneAgrees ==
    pc = "returned" =>
        /\ run.digest = Some(DigestAlone(calls, db))
        /\ db.digest_logs = <<LogAlone(calls, db, run.recipient)>>

\* the digest-log records of the run id
LogRecordsOf(id) ==
    SelectSeq(db.digest_logs, LAMBDA row : row.recipient = RecipientOf(id))

\* the ids last-fetched was updated for by the runs that are past that step
UpdatedBy(id) ==
    IF runs[id].pc \in {"start", "fetch"} THEN <<>>
    ELSE runs[id].run.successful_source_ids

\* the run id is untouched by the other one: what it holds is what its own
\* collaborators answered, and it has written its own rows and no others
RunIsItsOwn(id) ==
    LET p == runs[id]
    IN  /\ p.pc \in {"extract", "filter"} =>
              p.run.all_articles = EnrichedArticles(AggregatedOf(p.calls), p.calls.extract)
        /\ p.pc \in {"topics", "sections", "summarizing", "overview", "deliver", "log",
                     "returned"} =>
              p.run.all_articles = RemainingOf(p.calls, db)
        /\ p.pc \in {"deliver", "log", "returned"} =>
              p.run.digest = Some(DigestAlone(p.calls, db))
        /\ p.pc = "returned" => LogRecordsOf(id) = <<LogAlone(p.calls, db, RecipientOf(id))>>
        /\ p.pc # "returned" => LogRecordsOf(id) = <<>>

\* the writes to the database are those of the two runs and nothing else
SharedEffectsAreTheWrites ==
    /\ Len(db.last_fetched) = Len(UpdatedBy(1)) + Len(UpdatedBy(2))
    /\ Range(db.last_fetched) = Range(UpdatedBy(1)) \cup Range(UpdatedBy(2))
    /\ Len(db.digest_logs) = Len(LogRecordsOf(1)) + Len(LogRecordsOf(2))

\* whatever the interleaving, a run that returns has returned and logged
\* what it would alone
RunsThatReturnAreIndependent ==
    pc = "overlap" => (RunIsItsOwn(1) /\ RunIsItsOwn(2) /\ SharedEffectsAreTheWrites)

\* both runs have returned, with different digests, the second to return
\* having started before the first one had fetched
BothReturned ==
    /\ pc = "overlap"
    /\ runs[1].pc = "returned"
    /\ runs[2].pc = "returned"
    /\ runs[1].run.digest # runs[2].run.digest
    /\ db.digest_logs = <<LogAlone(runs[2].calls, db, RecipientOf(2)),
                          LogAlone(runs[1].calls, db, RecipientOf(1))>>
    /\ Value(runs[1].run.digest).topic_sections # <<>>
    /\ Value(runs[2].run.digest).entries = <<>>

\* C29: two run() invocations that overlap, interleaving at any suspension
\* point, share no in-memory state: each returns the Digest it would return
\* alone against the same answers of its collaborators, each appends exactly
\* one digest-log record with its own counts and status, and the only shared
\* effects are the last-fetched and log writes.
C29_OverlappingRunsIndependent ==
    pc = "overlap" =>
        /\ RunIsItsOwn(1) /\ RunIsItsOwn(2)
        /\ SharedEffectsAreTheWrites
        /\ \A id \in RunIds :
              runs[id].pc \in {"returned", "raised"} =>
                  /\ runs[id].pc = "returned"
                  /\ runs[id].run.digest # None
                  /\ Len(LogRecordsOf(id)) = 1

(***************************************************************************)
(* Properties of the scheduler module                                      *)
(***************************************************************************)
\* the schedulers created by the module that are running
Running == {n \in 1..Len(schedulers) : schedulers[n].running}

\* C30: after any sequence of start_scheduler and stop_scheduler calls at
\* most one scheduler created by the module is running, and it is the one
\* get_scheduler() returns; after stop_scheduler no scheduler created by the
\* module is running and get_scheduler() returns None.
C30_AtMostOneRunningScheduler ==
    pc \in {"idle", "started", "stopped"} =>
        /\ Cardinality(Running) <= 1
        /\ \A n \in Running : get_scheduler = Some(n)
        /\ pc = "stopped" => (Running = {} /\ get_scheduler = None)

\* what does hold: get_scheduler() returns the scheduler of the last
\* start_scheduler, running, or None after stop_scheduler, and every
\* scheduler started before the last start without a stop in between runs on
RunningAreCurrentOrOrphans ==
    pc \in {"idle", "started", "stopped"} =>
        /\ pc = "started" =>
              (get_scheduler = Some(Len(schedulers)) /\ Len(schedulers) \in Running)
        /\ pc \in {"idle", "stopped"} => get_scheduler = None
        /\ \A n \in 1..Len(schedulers) : schedulers[n].jobs = <<"daily_digest">>

====
